---------------------------- MODULE Spec2Model ----------------------------
(***************************************************************************)
(* Regnum Online Forum Archive: the query / formatting / pagination layer  *)
(* of the read-only REST API (helpers.js, database.js, routes/threads.js,  *)
(* routes/users.js, routes/stats.js, server.js), as a state machine over   *)
(* an immutable store, and the browser client's cache, request queue and   *)
(* router (api.js, router.js, app.js).                                     *)
(*                                                                         *)
(* Encoding of JavaScript values:                                          *)
(*   - a string is a sequence of one-character strings ("12a" is           *)
(*     <<"1","2","a">>), except where a string is only ever compared as a  *)
(*     whole (segment names, user names), where it is a TLA+ string;       *)
(*   - a nullable column or field is a record: None is null/undefined,     *)
(*     Some(v) is the value v; NaN is None among the numbers;              *)
(*   - a thrown exception is the record Throw(type).                       *)
(***************************************************************************)
EXTENDS Integers, Sequences, FiniteSets, TLC

VARIABLES
    threads,    \* table threads: sequence of rows [id, name, path]
    posts,      \* table posts: sequence of rows [id, thread_id, post_no, user_id, timestamp, message]
    users,      \* table users: sequence of rows [id, name]
    req,        \* the request (or helper call) being answered
    resp,       \* its response (or return value)
    issued,     \* how many store queries the handler of req issued
    nodeEnv,    \* process.env.NODE_ENV
    dbState,    \* the store connection: opening, open, failed, closing, closed
    listening,  \* the HTTP server accepts requests
    running,    \* the process has not exited
    now,        \* the browser: Date.now(), in milliseconds since the page loaded
    cache,      \* the browser: ApiCache.cache, the entries in insertion order
    nextSweep,  \* the browser: when the cleanup interval fires next
    queue,      \* the browser: RequestQueue.queue, key -> the request it holds (0: none)
    requests,   \* the browser: the requests RequestQueue.add has started
    router,     \* the browser: the Router (routes, currentRoute, currentParams)
    view,       \* the browser: the address bar, the main content, the pagination bar
    loads       \* the browser: the loadHomePage calls started, each with its position

storeVars == <<threads, posts, users>>
procVars == <<nodeEnv, dbState, listening, running>>
cacheVars == <<now, cache, nextSweep>>
queueVars == <<queue, requests>>
navVars == <<router, view, loads>>
clientVars == <<cacheVars, queueVars, navVars>>
envVars == <<threads, posts, users, nodeEnv, dbState, listening, running, clientVars>>
vars == <<threads, posts, users, req, resp, issued, nodeEnv, dbState, listening, running,
          clientVars>>

-----------------------------------------------------------------------------
(* Bounds of the model *)

\* longest raw query-string value (in characters) given to parseInt
MaxStrLen == 3

\* longest path (in segments) given to getLanguageFromPath / getCategoryFromPath
MaxLangSegs == 4
MaxCatSegs == 5

\* longest message (in elements) given to formatPostForApi
MaxElems == 2

\* the stores: up to MaxThreads threads whose shapes repeat a pattern of up to
\* MaxPattern templates, and two large stores of ScenarioThreads and
\* SearchLimit + 1 threads; a thread has up to MaxThreadPosts posts
MaxThreads == 3
MaxPattern == 2
MaxThreadPosts == 2
ScenarioThreads == 45

\* largest page, item count and page size given to getPagination
MaxPage == 4
MaxItems == 7
MaxPerPage == 3

-----------------------------------------------------------------------------
(* Generic helpers *)

Max(a, b) == IF a >= b THEN a ELSE b
Min(a, b) == IF a <= b THEN a ELSE b

Range(s) == { s[i] : i \in 1..Len(s) }

\* all sequences over S of length <= n
SeqsUpTo(S, n) == UNION { [1..k -> S] : k \in 0..n }

\* Math.ceil(a / b) for a >= 0, b >= 1
CeilDiv(a, b) == (a + b - 1) \div b

\* null / undefined, and a present value
None == [null |-> TRUE]
Some(v) == [v |-> v]

\* obj.f in JavaScript: undefined when the object has no such property
Get(obj, f) == IF f \in DOMAIN obj THEN obj[f] ELSE None

\* a thrown exception, as a value
Throw(type) == [threw |-> type]
IsThrow(v) == "threw" \in DOMAIN v

-----------------------------------------------------------------------------
(* parseInt, as ECMAScript defines it on the values the routes pass:       *)
(* leading white space is skipped, one sign is read, then the longest run  *)
(* of decimal digits; no digit at all gives NaN.                           *)

NaN == None

Digits == {"0", "1", "2", "3", "4", "5", "6", "7", "8", "9"}

DigitVal(c) ==
    CASE c = "0" -> 0 [] c = "1" -> 1 [] c = "2" -> 2 [] c = "3" -> 3
      [] c = "4" -> 4 [] c = "5" -> 5 [] c = "6" -> 6 [] c = "7" -> 7
      [] c = "8" -> 8 [] c = "9" -> 9

RECURSIVE SkipSpaces(_)
SkipSpaces(s) ==
    IF s # <<>> /\ Head(s) = " " THEN SkipSpaces(Tail(s)) ELSE s

\* value of the longest digit prefix of s, acc being the value read so far;
\* NaN when s starts with no digit and nothing was read
RECURSIVE ReadDigits(_, _, _)
ReadDigits(s, acc, any) ==
    IF s # <<>> /\ Head(s) \in Digits
    THEN ReadDigits(Tail(s), 10 * acc + DigitVal(Head(s)), TRUE)
    ELSE IF any THEN Some(acc) ELSE NaN

ParseIntStr(s) ==
    LET t    == SkipSpaces(s)
        neg  == t # <<>> /\ Head(t) = "-"
        u    == IF t # <<>> /\ Head(t) \in {"-", "+"} THEN Tail(t) ELSE t
        n    == ReadDigits(u, 0, FALSE)
    IN  IF n = NaN THEN NaN ELSE IF neg THEN Some(0 - n.v) ELSE n

\* A raw value: a query-string parameter (a string), a numeric default, or
\* undefined.
JsUndef == [k |-> "undefined"]
JsStr(s) == [k |-> "str", s |-> s]
JsNum(n) == [k |-> "num", n |-> n]

parseInt(v) ==
    CASE v.k = "str" -> ParseIntStr(v.s)
      [] v.k = "num" -> Some(v.n)
      [] OTHER       -> NaN

\* x || d for a number-or-NaN x: NaN and 0 are falsy
NumOr(x, d) == IF x = NaN \/ x.v = 0 THEN d ELSE x.v

-----------------------------------------------------------------------------
(* helpers.js: validatePagination, getPagination *)

DefaultPage == 1
DefaultLimit == 20
MaxLimit == 100

\* validatePagination without the floor of 1 on the page
validatePaginationNoFloor(page, limit) ==
    LET validatedPage  == NumOr(parseInt(page), DefaultPage)
        validatedLimit == Min(MaxLimit, Max(1, NumOr(parseInt(limit), DefaultLimit)))
    IN  [page   |-> validatedPage,
         limit  |-> validatedLimit,
         offset |-> (validatedPage - 1) * validatedLimit]

validatePagination(page, limit) ==
    LET validatedPage  == Max(1, NumOr(parseInt(page), DefaultPage))
        validatedLimit == Min(MaxLimit, Max(1, NumOr(parseInt(limit), DefaultLimit)))
    IN  [page   |-> validatedPage,
         limit  |-> validatedLimit,
         offset |-> (validatedPage - 1) * validatedLimit]

\* getPagination(currentPage, totalItems, itemsPerPage, baseUrl), without the
\* url strings; totalItems >= 0, itemsPerPage >= 1
getPagination(currentPage, totalItems, itemsPerPage) ==
    LET totalPages == CeilDiv(totalItems, itemsPerPage)
        startPage  == Max(1, currentPage - 2)
        endPage    == Min(totalPages, currentPage + 2)
    IN  [pages        |-> [i \in 1..Max(0, endPage - startPage + 1) |->
                              [page |-> startPage + i - 1,
                               active |-> (startPage + i - 1 = currentPage)]],
         totalPages   |-> totalPages,
         currentPage  |-> currentPage,
         totalItems   |-> totalItems,
         itemsPerPage |-> itemsPerPage,
         hasNext      |-> currentPage < totalPages,
         hasPrev      |-> currentPage > 1,
         startItem    |-> (currentPage - 1) * itemsPerPage + 1,
         endItem      |-> Min(currentPage * itemsPerPage, totalItems)]

-----------------------------------------------------------------------------
(* helpers.js: the path taxonomy.                                          *)
(* A path is the sequence of its slash-delimited segments, i.e. the value  *)
(* of path.split('/'); "a/b" is <<"a","b">> and "/a/" is <<"","a","">>.    *)
(* Since no segment holds a slash, path.includes('/X/') is true exactly    *)
(* when some segment other than the first and the last equals X.           *)

Includes(path, X) == \E i \in 2..(Len(path) - 1) : path[i] = X

\* getLanguageFromPath with the first two tests in the other order
getLanguageFromPathEnglishFirst(path) ==
    IF Includes(path, "English") THEN "English"
    ELSE IF Includes(path, "Español") THEN "Español"
    ELSE IF Includes(path, "Português") THEN "Português"
    ELSE IF Includes(path, "Deutsch") THEN "Deutsch"
    ELSE IF Includes(path, "Français") THEN "Français"
    ELSE IF Includes(path, "Italiano") THEN "Italiano"
    ELSE "Other"

getLanguageFromPath(path) ==
    IF Includes(path, "Español") THEN "Español"
    ELSE IF Includes(path, "English") THEN "English"
    ELSE IF Includes(path, "Português") THEN "Português"
    ELSE IF Includes(path, "Deutsch") THEN "Deutsch"
    ELSE IF Includes(path, "Français") THEN "Français"
    ELSE IF Includes(path, "Italiano") THEN "Italiano"
    ELSE "Other"

MinCategoryParts == 4

\* the category is a path too: the segments the function returns
getCategoryFromPath(path) ==
    IF Len(path) >= MinCategoryParts THEN <<path[Len(path)]>> ELSE <<"General">>

-----------------------------------------------------------------------------
(* helpers.js: formatTimestamp.                                            *)
(* A stored timestamp "AA-BB-YYYY, hh:mm AP" is the record                 *)
(* [a, b, y, h, mi, ap]; any other text is [raw |-> text].  The rendering  *)
(* 'MMM D, YYYY \a\t h:mm A' of a parsed date is [day, month, year, h, mi, *)
(* ap].  moment tries 'DD-MM-YYYY, hh:mm A' first, then the US order       *)
(* 'MM-DD-YYYY, hh:mm A'; the remaining formats differ from these two only *)
(* in punctuation.                                                        *)

IsStoredTimestamp(ts) == DOMAIN ts = {"a", "b", "y", "h", "mi", "ap"}

DaysIn(m, y) ==
    IF m = 2 THEN (IF y % 4 = 0 /\ (y % 100 # 0 \/ y % 400 = 0) THEN 29 ELSE 28)
    ELSE IF m \in {4, 6, 9, 11} THEN 30 ELSE 31

ValidDate(d, m, y) == m \in 1..12 /\ d \in 1..DaysIn(m, y)

Rendered(d, m, ts) ==
    [day |-> d, month |-> m, year |-> ts.y, h |-> ts.h, mi |-> ts.mi, ap |-> ts.ap]

formatTimestamp(ts) ==
    IF ~IsStoredTimestamp(ts) THEN ts
    ELSE IF ValidDate(ts.a, ts.b, ts.y) THEN Rendered(ts.a, ts.b, ts)
    ELSE IF ValidDate(ts.b, ts.a, ts.y) THEN Rendered(ts.b, ts.a, ts)
    ELSE ts

\* x ? formatTimestamp(x) : null, for a nullable column x
FormatTimeOrNull(x) == IF x = None THEN None ELSE Some(formatTimestamp(x.v))

-----------------------------------------------------------------------------
(* helpers.js: sanitizeHtmlContent.                                        *)
(* A message is the sequence of its elements, each [tag, attrs] with attrs *)
(* a set of [name, scheme]; scheme is the URL scheme of the attribute's    *)
(* value ("" for a value that is no absolute URL).  The null message is    *)
(* None.  sanitize-html is given the three allow-lists below and, in its   *)
(* default discard mode, drops every element whose tag is not allowed,     *)
(* every attribute not allowed for the tag or for '*', and every URL       *)
(* attribute (href, src) whose scheme is not allowed.                      *)

\* the tag allow-list with script let through
allowedTagsWithScript ==
    {"p", "br", "b", "strong", "i", "em", "u", "a", "img", "div", "span",
     "ul", "ol", "li", "blockquote", "h1", "h2", "h3", "h4", "h5", "h6",
     "pre", "code", "hr", "table", "thead", "tbody", "tr", "td", "th", "script"}

allowedTags ==
    {"p", "br", "b", "strong", "i", "em", "u", "a", "img", "div", "span",
     "ul", "ol", "li", "blockquote", "h1", "h2", "h3", "h4", "h5", "h6",
     "pre", "code", "hr", "table", "thead", "tbody", "tr", "td", "th"}

allowedAttributes(tag) ==
    (CASE tag = "a"   -> {"href", "title", "target"}
       [] tag = "img" -> {"src", "alt", "title", "width", "height"}
       [] OTHER       -> {})
    \cup {"class", "style"}

allowedSchemes == {"http", "https", "mailto"}

UrlAttributes == {"href", "src"}

sanitizeHtml(html) ==
    LET KeepAttr(tag, at) ==
            /\ at.name \in allowedAttributes(tag)
            /\ at.name \in UrlAttributes => at.scheme \in allowedSchemes \cup {""}
        KeepTag(el) == el.tag \in allowedTags
        kept == SelectSeq(html, KeepTag)
    IN  [i \in 1..Len(kept) |->
            [tag   |-> kept[i].tag,
             attrs |-> { at \in kept[i].attrs : KeepAttr(kept[i].tag, at) }]]

\* if (!html) return ''  -- the empty message is the empty sequence
sanitizeHtmlContent(html) ==
    IF html = None \/ html.v = <<>> THEN <<>> ELSE sanitizeHtml(html.v)

-----------------------------------------------------------------------------
(* helpers.js: the result formatters.  A row or object is a record whose   *)
(* fields are nullable values; a missing property reads as None.           *)

\* x || 0 and x || y || 0 for nullable numbers
OrZero(x) == IF x = None \/ x.v = 0 THEN 0 ELSE x.v
Or2Zero(x, y) == IF x = None \/ x.v = 0 THEN OrZero(y) ELSE x.v

\* x || 'Guest' for a nullable string
OrGuest(x) == IF x = None \/ x.v = <<>> THEN <<"G", "u", "e", "s", "t">> ELSE x.v

formatThreadForApi(thread) ==
    IF thread = None THEN None
    ELSE LET t == thread.v IN
         IF Get(t, "path") = None
         THEN Throw("TypeError")      \* null.includes(...)
         ELSE Some([id            |-> Get(t, "id"),
                    name          |-> Get(t, "name"),
                    path          |-> Get(t, "path"),
                    language      |-> Some(getLanguageFromPath(Get(t, "path").v)),
                    category      |-> Some(getCategoryFromPath(Get(t, "path").v)),
                    postCount     |-> Some(OrZero(Get(t, "post_count"))),
                    lastPoster    |-> Get(t, "last_poster"),
                    lastPostTime  |-> FormatTimeOrNull(Get(t, "last_post_time")),
                    createdTime   |-> FormatTimeOrNull(Get(t, "created_time")),
                    threadCreator |-> Get(t, "thread_creator")])

formatUserForApi(user) ==
    IF user = None THEN None
    ELSE LET u == user.v IN
         Some([id          |-> Get(u, "id"),
               name        |-> Get(u, "name"),
               postCount   |-> Some(Or2Zero(Get(u, "post_count"), Get(u, "total_posts"))),
               threadCount |-> Some(Or2Zero(Get(u, "thread_count"), Get(u, "total_threads"))),
               firstPost   |-> FormatTimeOrNull(Get(u, "first_post")),
               lastPost    |-> FormatTimeOrNull(Get(u, "last_post"))])

formatPostForApi(post) ==
    IF post = None THEN None
    ELSE LET p == post.v IN
         Some([id         |-> Get(p, "id"),
               threadId   |-> Get(p, "thread_id"),
               postNo     |-> Get(p, "post_no"),
               userId     |-> Get(p, "user_id"),
               username   |-> Some(OrGuest(Get(p, "username"))),
               timestamp  |-> FormatTimeOrNull(Get(p, "timestamp")),
               message    |-> Some(sanitizeHtmlContent(Get(p, "message"))),
               threadName |-> Get(p, "thread_name"),
               threadPath |-> Get(p, "thread_path")])

-----------------------------------------------------------------------------
(* The caller of a helper, and the server between two requests, is idle;   *)
(* Return is the step back to idle after a call or a response.             *)

Idle == req.op = "none"

Return ==
    /\ ~Idle
    /\ running
    /\ req' = [op |-> "none"]
    /\ resp' = None
    /\ issued' = 0
    /\ UNCHANGED envVars

-----------------------------------------------------------------------------
(* Inputs of the helper calls *)

PageChars == {"-", "0", "1", "a"}

RawValues ==
    {JsUndef, JsNum(1), JsNum(20), JsNum(50),
     JsStr(<<" ", "2">>), JsStr(<<"+", "3">>), JsStr(<<"2", "0">>)}
    \cup { JsStr(s) : s \in SeqsUpTo(PageChars, MaxStrLen) }

LangSegs ==
    {"Español", "English", "Português", "Deutsch", "Français", "Italiano",
     "english", "General"}
LangPaths == SeqsUpTo(LangSegs, MaxLangSegs) \ {<<>>}

CatSegs == {"Calendar", "Champions of Regnum", "English", "General", "Tech"}
CatPaths == SeqsUpTo(CatSegs, MaxCatSegs) \ {<<>>}

TsEuropean == [a |-> 5,  b |-> 9,  y |-> 2008, h |-> 9, mi |-> 39, ap |-> "PM"]
TsUsOnly   == [a |-> 12, b |-> 25, y |-> 2007, h |-> 1, mi |-> 5,  ap |-> "AM"]
TsNoDate   == [a |-> 31, b |-> 31, y |-> 2009, h |-> 1, mi |-> 5,  ap |-> "AM"]
TsText     == [raw |-> <<"y", "e", "s", "t", "e", "r", "d", "a", "y">>]

SamplePaths ==
    {<<"Calendar", "Champions of Regnum", "English", "General">>,
     <<"Calendar", "Champions of Regnum", "Español", "Tech", "Linux">>,
     <<"Trash">>}

ThreadRows ==
    [id: {Some(1)}, name: {Some(<<"H", "i">>)},
     path: {None} \cup { Some(p) : p \in SamplePaths },
     post_count: {None, Some(0), Some(2)},
     last_poster: {None, Some(<<"b", "o", "b">>)},
     last_post_time: {None, Some(TsEuropean), Some(TsText)},
     created_time: {None, Some(TsUsOnly)},
     thread_creator: {None, Some(<<"a", "n", "n">>)}]
    \cup [id: {Some(1)}, name: {Some(<<"H", "i">>)},
          path: {None} \cup { Some(p) : p \in SamplePaths }]

UserRows ==
    [id: {Some(7)}, name: {None, Some(<<"b", "o", "b">>)},
     post_count: {None, Some(0), Some(3)},
     thread_count: {None, Some(2)},
     first_post: {None, Some(TsEuropean), Some(TsNoDate)},
     last_post: {None, Some(TsUsOnly)}]
    \cup [id: {Some(7)}, name: {Some(<<"b", "o", "b">>)},
          total_posts: {Some(0), Some(5)}, total_threads: {Some(0), Some(1)},
          first_post: {None, Some(TsEuropean)}, last_post: {None, Some(TsText)}]

ElemTags == {"p", "a", "img", "script", "iframe"}
ElemAttrs ==
    {[name |-> "href", scheme |-> "http"], [name |-> "href", scheme |-> "javascript"],
     [name |-> "href", scheme |-> ""], [name |-> "src", scheme |-> "https"],
     [name |-> "src", scheme |-> "data"], [name |-> "onclick", scheme |-> ""],
     [name |-> "class", scheme |-> ""], [name |-> "title", scheme |-> ""]}
Elems == [tag: ElemTags, attrs: {{}} \cup { {at} : at \in ElemAttrs }]
Messages == SeqsUpTo(Elems, MaxElems)

SampleMessage == <<[tag |-> "p", attrs |-> {}], [tag |-> "script", attrs |-> {}]>>

PostRows ==
    [id: {Some(3)}, thread_id: {Some(1)}, post_no: {Some(1)}, user_id: {Some(7)},
     username: {Some(<<"b", "o", "b">>)}, timestamp: {Some(TsEuropean)},
     message: {None} \cup { Some(m) : m \in Messages }]
    \cup [id: {Some(3)}, thread_id: {Some(1)}, post_no: {Some(1)},
          user_id: {None, Some(0), Some(7)},
          username: {None, Some(<<>>), Some(<<"b", "o", "b">>)},
          timestamp: {None, Some(TsEuropean), Some(TsText)},
          message: {None, Some(SampleMessage)},
          thread_name: {Some(<<"H", "i">>)},
          thread_path: {Some(<<"Trash">>)}]

FormatOps == {"formatThreadForApi", "formatUserForApi", "formatPostForApi"}

Format(op, arg) ==
    CASE op = "formatThreadForApi" -> formatThreadForApi(arg)
      [] op = "formatUserForApi"   -> formatUserForApi(arg)
      [] op = "formatPostForApi"   -> formatPostForApi(arg)

-----------------------------------------------------------------------------
(* The helper calls as a state machine: each action is one call made by an *)
(* idle caller, req its arguments and resp its return value; Return hands  *)
(* control back to the caller, who may then make the next call.            *)

NoStore ==
    /\ threads = <<>>
    /\ posts = <<>>
    /\ users = <<>>

\* the helpers are called outside any server: no connection, no listener
NoServer ==
    /\ nodeEnv = "development"
    /\ dbState = "closed"
    /\ listening = FALSE
    /\ running = TRUE
    /\ issued = 0

\* no page of the browser client is loaded
NoClient ==
    /\ now = 0
    /\ cache = <<>>
    /\ nextSweep = 0
    /\ queue = <<>>
    /\ requests = <<>>
    /\ router = None
    /\ view = None
    /\ loads = <<>>

InitHelpers ==
    /\ NoStore
    /\ NoServer
    /\ NoClient
    /\ req = [op |-> "none"]
    /\ resp = None

CallValidatePagination ==
    /\ Idle
    /\ \E page \in RawValues, limit \in RawValues :
          /\ req' = [op |-> "validatePagination", page |-> page, limit |-> limit]
          /\ resp' = validatePagination(page, limit)
    /\ UNCHANGED <<envVars, issued>>

CallGetPagination ==
    /\ Idle
    /\ \E currentPage \in 1..MaxPage, totalItems \in 0..MaxItems,
          itemsPerPage \in 1..MaxPerPage :
          /\ req' = [op |-> "getPagination", currentPage |-> currentPage,
                     totalItems |-> totalItems, itemsPerPage |-> itemsPerPage]
          /\ resp' = getPagination(currentPage, totalItems, itemsPerPage)
    /\ UNCHANGED <<envVars, issued>>

CallGetLanguageFromPath ==
    /\ Idle
    /\ \E path \in LangPaths :
          /\ req' = [op |-> "getLanguageFromPath", path |-> path]
          /\ resp' = getLanguageFromPath(path)
    /\ UNCHANGED <<envVars, issued>>

CallGetCategoryFromPath ==
    /\ Idle
    /\ \E path \in CatPaths :
          /\ req' = [op |-> "getCategoryFromPath", path |-> path]
          /\ resp' = getCategoryFromPath(path)
    /\ UNCHANGED <<envVars, issued>>

CallFormatThread ==
    /\ Idle
    /\ \E arg \in {None} \cup { Some(r) : r \in ThreadRows } :
          /\ req' = [op |-> "formatThreadForApi", arg |-> arg, again |-> FALSE]
          /\ resp' = formatThreadForApi(arg)
    /\ UNCHANGED <<envVars, issued>>

CallFormatUser ==
    /\ Idle
    /\ \E arg \in {None} \cup { Some(r) : r \in UserRows } :
          /\ req' = [op |-> "formatUserForApi", arg |-> arg, again |-> FALSE]
          /\ resp' = formatUserForApi(arg)
    /\ UNCHANGED <<envVars, issued>>

CallFormatPost ==
    /\ Idle
    /\ \E arg \in {None} \cup { Some(r) : r \in PostRows } :
          /\ req' = [op |-> "formatPostForApi", arg |-> arg, again |-> FALSE]
          /\ resp' = formatPostForApi(arg)
    /\ UNCHANGED <<envVars, issued>>

\* the formatter applied to the object it has just returned
CallFormatAgain ==
    /\ req.op \in FormatOps
    /\ ~req.again
    /\ ~IsThrow(resp)
    /\ resp # None
    /\ req' = [op |-> req.op, arg |-> resp, again |-> TRUE]
    /\ resp' = Format(req.op, resp)
    /\ UNCHANGED <<envVars, issued>>

NextHelpers ==
    \/ CallValidatePagination
    \/ CallGetPagination
    \/ CallGetLanguageFromPath
    \/ CallGetCategoryFromPath
    \/ CallFormatThread
    \/ CallFormatUser
    \/ CallFormatPost
    \/ CallFormatAgain
    \/ Return

SpecHelpers == InitHelpers /\ [][NextHelpers]_vars

-----------------------------------------------------------------------------
(* database.js: the store and the SQL the queries run.                     *)
(* A thread name, a search term and the text of a message are character    *)
(* sequences; a post's message column is the record [text, html] of its    *)
(* characters (what LIKE reads) and its elements (what the sanitizer       *)
(* reads).  Stored timestamps are compared as SQLite compares the strings  *)
(* "DD-MM-YYYY, hh:mm AP": field by field from the left.                   *)

Lower(c) == IF c = "A" THEN "a" ELSE IF c = "B" THEN "b" ELSE c

LowerStr(str) == [i \in 1..Len(str) |-> Lower(str[i])]

\* text LIKE '%q%': SQLite's LIKE ignores the case of ASCII letters
LikeContains(text, q) ==
    \E i \in 1..(Len(text) - Len(q) + 1) :
        LowerStr(SubSeq(text, i, i + Len(q) - 1)) = LowerStr(q)

\* the lower-case form of a path segment, for LIKE (ASCII letters only)
LowerSeg(seg) ==
    CASE seg = "English"  -> "english"
      [] seg = "Español"  -> "español"
      [] seg = "General"  -> "general"
      [] seg = "Tech"     -> "tech"
      [] seg = "Linux"    -> "linux"
      [] seg = "Calendar" -> "calendar"
      [] seg = "Champions of Regnum" -> "champions of regnum"
      [] OTHER -> seg

\* path LIKE '%/<language>/%'
LikeLanguage(path, language) ==
    \E i \in 2..(Len(path) - 1) : LowerSeg(path[i]) = LowerSeg(language)

\* path LIKE '%/<category>', the category being a path of one or more segments
LikeCategory(path, category) ==
    /\ Len(path) > Len(category)
    /\ \A i \in 1..Len(category) :
          LowerSeg(path[Len(path) - Len(category) + i]) = LowerSeg(category[i])

\* the fields of a stored timestamp in the order of its text; a text that
\* begins with a letter sorts after every text that begins with a digit
TsKey(ts) ==
    IF IsStoredTimestamp(ts)
    THEN <<ts.a, ts.b, ts.y, ts.h, ts.mi, IF ts.ap = "AM" THEN 0 ELSE 1>>
    ELSE <<100, 0, 0, 0, 0, 0>>

RECURSIVE LexLess(_, _)
LexLess(x, y) ==
    IF x = <<>> THEN FALSE
    ELSE IF Head(x) # Head(y) THEN Head(x) < Head(y)
    ELSE LexLess(Tail(x), Tail(y))

\* x < y as SQLite orders the two timestamp strings
TsLess(x, y) == LexLess(TsKey(x), TsKey(y))

PostsOf(threadId) == SelectSeq(posts, LAMBDA p : p.thread_id = threadId)

\* index of the first row of ps that Better ranks above all others, 0 if none
FirstBest(ps, Better(_, _)) ==
    IF ps = <<>> THEN 0
    ELSE CHOOSE i \in 1..Len(ps) :
            /\ \A j \in 1..Len(ps) : ~Better(ps[j], ps[i])
            /\ \A j \in 1..(i - 1) : Better(ps[i], ps[j])

\* MAX(timestamp) and MIN(timestamp) over rows ps, NULL over no rows
MaxTimestamp(ps) ==
    IF ps = <<>> THEN None
    ELSE Some(ps[FirstBest(ps, LAMBDA p, q : TsLess(q.timestamp, p.timestamp))].timestamp)

MinTimestamp(ps) ==
    IF ps = <<>> THEN None
    ELSE Some(ps[FirstBest(ps, LAMBDA p, q : TsLess(p.timestamp, q.timestamp))].timestamp)

UserRow(userId) == SelectSeq(users, LAMBDA u : u.id = userId)

\* posts p JOIN users u ON p.user_id = u.id
JoinedWithUser(ps) == SelectSeq(ps, LAMBDA p : UserRow(p.user_id) # <<>>)

UserNameOf(p) == UserRow(p.user_id)[1].name

\* SELECT u.name ... WHERE p.thread_id = t.id ORDER BY p.timestamp DESC LIMIT 1
LastPoster(threadId) ==
    LET ps == JoinedWithUser(PostsOf(threadId))
    IN  IF ps = <<>> THEN None
        ELSE UserNameOf(ps[FirstBest(ps, LAMBDA p, q : TsLess(q.timestamp, p.timestamp))])

\* SELECT u.name ... WHERE p.thread_id = t.id ORDER BY p.post_no ASC LIMIT 1
ThreadCreator(threadId) ==
    LET ps == JoinedWithUser(PostsOf(threadId))
    IN  IF ps = <<>> THEN None
        ELSE UserNameOf(ps[FirstBest(ps, LAMBDA p, q : p.post_no < q.post_no)])

\* a is sorted before b by ORDER BY <time> DESC with NULL last
TimeBefore(a, b) == a # None /\ (b = None \/ TsLess(b.v, a.v))

\* rows sorted by their time column, descending, rows without one last; rows
\* of equal time stay in table order
RECURSIVE SortByTimeDesc(_, _)
SortByTimeDesc(rows, col) ==
    IF rows = <<>> THEN <<>>
    ELSE LET n      == Len(rows)
             sorted == SortByTimeDesc(SubSeq(rows, 1, n - 1), col)
             r      == rows[n]
             ahead  == { i \in 1..Len(sorted) : TimeBefore(r[col], sorted[i][col]) }
             k      == IF ahead = {} THEN Len(sorted) + 1
                       ELSE CHOOSE i \in ahead : \A j \in ahead : i <= j
         IN  SubSeq(sorted, 1, k - 1) \o <<r>> \o SubSeq(sorted, k, Len(sorted))

\* a string parameter that is given: if (language) ...  (TruthyStr for a
\* segment name, TruthySeq for a path or a character sequence)
TruthyStr(x) == x # None /\ x.v # ""
TruthySeq(x) == x # None /\ x.v # <<>>

\* LIMIT limit OFFSET offset
LimitOffset(rows, limit, offset) ==
    SubSeq(rows, offset + 1, Min(offset + limit, Len(rows)))

ThreadMatches(t, language, category) ==
    /\ TruthyStr(language) => LikeLanguage(t.path, language.v)
    /\ TruthySeq(category) => LikeCategory(t.path, category.v)

ThreadListRow(t) ==
    [id             |-> Some(t.id),
     name           |-> Some(t.name),
     path           |-> Some(t.path),
     post_count     |-> Some(Len(PostsOf(t.id))),
     last_poster    |-> LastPoster(t.id),
     last_post_time |-> MaxTimestamp(PostsOf(t.id)),
     created_time   |-> MinTimestamp(PostsOf(t.id)),
     thread_creator |-> ThreadCreator(t.id)]

\* the threads a thread list without search matches, in result order
OrderedThreads(language, category) ==
    LET matching == SelectSeq(threads, LAMBDA t : ThreadMatches(t, language, category))
        rows     == [i \in 1..Len(matching) |-> ThreadListRow(matching[i])]
    IN  SortByTimeDesc(rows, "last_post_time")

getThreads(language, category, limit, offset) ==
    LimitOffset(OrderedThreads(language, category), limit, offset)

SearchLimit == 50

SearchMatches(t, query, language) ==
    /\ \/ LikeContains(t.name, query)
       \/ \E i \in 1..Len(posts) :
             /\ posts[i].thread_id = t.id
             /\ LikeContains(posts[i].message.text, query)
    /\ TruthyStr(language) => LikeLanguage(t.path, language.v)

\* One group of the search query: the rows of thread t joined with its posts.
\* u.name is non-null only on the rows whose post carries the thread's latest
\* timestamp; last_poster is a bare column of the group, so it comes from
\* whichever joined row SQLite keeps: the first when pickFirst, else the last.
SearchRow(t, pickFirst) ==
    LET ps      == PostsOf(t.id)
        latest  == MaxTimestamp(ps)
        picked  == IF pickFirst THEN ps[1] ELSE ps[Len(ps)]
        first   == IF ps = <<>> THEN 0
                   ELSE FirstBest(ps, LAMBDA p, q : TsLess(p.timestamp, q.timestamp))
    IN  [id             |-> Some(t.id),
         name           |-> Some(t.name),
         path           |-> Some(t.path),
         post_count     |-> Some(Len(ps)),
         last_post_time |-> latest,
         created_time   |-> MinTimestamp(ps),
         last_poster    |-> IF ps = <<>> \/ picked.timestamp # latest.v
                               \/ UserRow(picked.user_id) = <<>>
                            THEN None ELSE UserNameOf(picked),
         thread_creator |-> IF ps = <<>> \/ UserRow(ps[first].user_id) = <<>>
                            THEN None ELSE UserNameOf(ps[first])]

\* searchThreads without its LIMIT 50
searchThreadsNoCap(query, language, pickFirst) ==
    LET matching == SelectSeq(threads, LAMBDA t : SearchMatches(t, query, language))
        rows     == [i \in 1..Len(matching) |-> SearchRow(matching[i], pickFirst)]
    IN  SortByTimeDesc(rows, "last_post_time")

searchThreads(query, language, pickFirst) ==
    LET matching == SelectSeq(threads, LAMBDA t : SearchMatches(t, query, language))
        rows     == [i \in 1..Len(matching) |-> SearchRow(matching[i], pickFirst)]
    IN  LimitOffset(SortByTimeDesc(rows, "last_post_time"), SearchLimit, 0)

\* SELECT * FROM threads WHERE id = ?
getThread(threadId) ==
    LET found == SelectSeq(threads, LAMBDA t : t.id = threadId)
    IN  IF found = <<>> THEN None
        ELSE Some([id |-> Some(found[1].id), name |-> Some(found[1].name),
                   path |-> Some(found[1].path)])

\* rows sorted by post_no, ascending
RECURSIVE SortByPostNo(_)
SortByPostNo(rows) ==
    IF rows = <<>> THEN <<>>
    ELSE LET n      == Len(rows)
             sorted == SortByPostNo(SubSeq(rows, 1, n - 1))
             r      == rows[n]
             after  == { i \in 1..Len(sorted) : r.post_no < sorted[i].post_no }
             k      == IF after = {} THEN Len(sorted) + 1
                       ELSE CHOOSE i \in after : \A j \in after : i <= j
         IN  SubSeq(sorted, 1, k - 1) \o <<r>> \o SubSeq(sorted, k, Len(sorted))

\* SELECT p.*, u.name as username FROM posts p LEFT JOIN users u
PostRow(p) ==
    [id        |-> Some(p.id),
     thread_id |-> Some(p.thread_id),
     post_no   |-> Some(p.post_no),
     user_id   |-> Some(p.user_id),
     timestamp |-> Some(p.timestamp),
     message   |-> Some(p.message.html),
     username  |-> IF UserRow(p.user_id) = <<>> THEN None ELSE UserNameOf(p)]

\* getPosts without its ORDER BY: the rows come in table order
getPostsTableOrder(threadId, limit, offset) ==
    LET mine == PostsOf(threadId)
    IN  LimitOffset([i \in 1..Len(mine) |-> PostRow(mine[i])], limit, offset)

getPosts(threadId, limit, offset) ==
    LET mine == SortByPostNo(PostsOf(threadId))
    IN  LimitOffset([i \in 1..Len(mine) |-> PostRow(mine[i])], limit, offset)

getPostCount(threadId) == Len(PostsOf(threadId))

\* users u INNER JOIN posts p ... WHERE u.name IS NOT NULL AND u.name != ''
\* AND u.id > 0 [AND u.name LIKE '%search%'] GROUP BY u.id, u.name
ListedUsers(search) ==
    SelectSeq(users, LAMBDA u :
        /\ u.name # None
        /\ u.name.v # <<>>
        /\ u.id > 0
        /\ \E i \in 1..Len(posts) : posts[i].user_id = u.id
        /\ TruthySeq(search) => LikeContains(u.name.v, search.v))

PostsBy(userId) == SelectSeq(posts, LAMBDA p : p.user_id = userId)

UserListRow(u) ==
    LET ps == PostsBy(u.id)
    IN  [id           |-> Some(u.id),
         name         |-> u.name,
         thread_count |-> Some(Cardinality({ ps[i].thread_id : i \in 1..Len(ps) })),
         post_count   |-> Some(Len(ps)),
         first_post   |-> MinTimestamp(ps),
         last_post    |-> MaxTimestamp(ps)]

\* rows sorted by post_count, descending; equal counts stay in table order
RECURSIVE SortByPostCountDesc(_)
SortByPostCountDesc(rows) ==
    IF rows = <<>> THEN <<>>
    ELSE LET n      == Len(rows)
             sorted == SortByPostCountDesc(SubSeq(rows, 1, n - 1))
             r      == rows[n]
             ahead  == { i \in 1..Len(sorted) : r.post_count.v > sorted[i].post_count.v }
             k      == IF ahead = {} THEN Len(sorted) + 1
                       ELSE CHOOSE i \in ahead : \A j \in ahead : i <= j
         IN  SubSeq(sorted, 1, k - 1) \o <<r>> \o SubSeq(sorted, k, Len(sorted))

getUserList(limit, offset, search) ==
    LET listed == ListedUsers(search)
        rows   == [i \in 1..Len(listed) |-> UserListRow(listed[i])]
    IN  LimitOffset(SortByPostCountDesc(rows), limit, offset)

getUserCount(search) == Len(ListedUsers(search))

\* SELECT id, name FROM users WHERE id = ?, then the statistics of the
\* user's posts; null when there is no such user
getUserWithStats(userId) ==
    LET found == UserRow(userId)
        ps    == PostsBy(userId)
    IN  IF found = <<>> THEN None
        ELSE Some([id            |-> Some(found[1].id),
                   name          |-> found[1].name,
                   total_posts   |-> Some(Len(ps)),
                   total_threads |-> Some(Cardinality({ ps[i].thread_id : i \in 1..Len(ps) })),
                   first_post    |-> MinTimestamp(ps),
                   last_post     |-> MaxTimestamp(ps)])

ThreadRowOf(threadId) == SelectSeq(threads, LAMBDA t : t.id = threadId)

\* posts p INNER JOIN threads t ON p.thread_id = t.id WHERE p.user_id = ?
UserPostRow(p) ==
    [id          |-> Some(p.id),
     thread_id   |-> Some(p.thread_id),
     post_no     |-> Some(p.post_no),
     timestamp   |-> Some(p.timestamp),
     message     |-> Some(p.message.html),
     thread_name |-> Some(ThreadRowOf(p.thread_id)[1].name),
     thread_path |-> Some(ThreadRowOf(p.thread_id)[1].path)]

getUserPosts(userId, limit, offset) ==
    LET mine == SelectSeq(PostsBy(userId), LAMBDA p : ThreadRowOf(p.thread_id) # <<>>)
        rows == [i \in 1..Len(mine) |-> UserPostRow(mine[i])]
    IN  LimitOffset(SortByTimeDesc(rows, "timestamp"), limit, offset)

\* the subquery up: one row per thread the user posted in, with the user's
\* first post there, ORDER BY first_post DESC LIMIT ? OFFSET ?
UserThreadGroups(userId, limit, offset) ==
    LET ps     == PostsBy(userId)
        posted == SelectSeq(threads, LAMBDA t : \E i \in 1..Len(ps) : ps[i].thread_id = t.id)
        rows   == [i \in 1..Len(posted) |->
                     [thread_id  |-> posted[i].id,
                      first_post |-> MinTimestamp(SelectSeq(ps,
                                        LAMBDA p : p.thread_id = posted[i].id))]]
    IN  LimitOffset(SortByTimeDesc(rows, "first_post"), limit, offset)

\* up INNER JOIN threads t INNER JOIN tc (post_count, last_post of the thread)
UserThreadRow(g) ==
    [id         |-> Some(g.thread_id),
     name       |-> Some(ThreadRowOf(g.thread_id)[1].name),
     path       |-> Some(ThreadRowOf(g.thread_id)[1].path),
     post_count |-> Some(Len(PostsOf(g.thread_id))),
     first_post |-> g.first_post,
     last_post  |-> MaxTimestamp(PostsOf(g.thread_id))]

getUserThreads(userId, limit, offset) ==
    LET groups == UserThreadGroups(userId, limit, offset)
        rows   == [i \in 1..Len(groups) |-> UserThreadRow(groups[i])]
    IN  SortByTimeDesc(rows, "first_post")

\* the characters of the model's texts, in ASCII order
Ascii ==
    <<" ", ",", "-", "0", "1", "2", "3", "4", "5", "6", "7", "8", "9", ":",
      "A", "M", "P", "U", "a", "d", "e", "k", "n", "o", "r", "s", "t", "w", "y">>

Code(c) == CHOOSE i \in 1..Len(Ascii) : Ascii[i] = c

\* x <= y as SQLite compares two texts
RECURSIVE TextLeq(_, _)
TextLeq(x, y) ==
    IF x = <<>> THEN TRUE
    ELSE IF y = <<>> THEN FALSE
    ELSE IF Head(x) # Head(y) THEN Code(Head(x)) < Code(Head(y))
    ELSE TextLeq(Tail(x), Tail(y))

DigitChar(n) == CHOOSE c \in Digits : DigitVal(c) = n
Pad2(n) == <<DigitChar((n \div 10) % 10), DigitChar(n % 10)>>
Pad4(n) == Pad2(n \div 100) \o Pad2(n % 100)

\* the text of a timestamp column: 'DD-MM-YYYY, hh:mm AM' or whatever else
\* the archive holds
TimestampText(ts) ==
    IF IsStoredTimestamp(ts)
    THEN Pad2(ts.a) \o <<"-">> \o Pad2(ts.b) \o <<"-">> \o Pad4(ts.y) \o <<",", " ">>
            \o Pad2(ts.h) \o <<":">> \o Pad2(ts.mi)
            \o <<" ", IF ts.ap = "AM" THEN "A" ELSE "P", "M">>
    ELSE ts.raw

Unknown == <<"U", "n", "k", "n", "o", "w", "n">>
FirstYear == <<"2", "0", "0", "5">>
LastYear == <<"2", "0", "2", "5">>

\* CASE WHEN timestamp LIKE '%-%-%' AND LENGTH(timestamp) >= 10
\*      THEN SUBSTR(timestamp, -4) ELSE 'Unknown' END
YearColumn(text) ==
    IF /\ \E i, j \in 1..Len(text) : i < j /\ text[i] = "-" /\ text[j] = "-"
       /\ Len(text) >= 10
    THEN SubSeq(text, Len(text) - 3, Len(text))
    ELSE Unknown

\* the texts of a set, in ascending order
RECURSIVE SortTexts(_)
SortTexts(texts) ==
    IF texts = {} THEN <<>>
    ELSE LET least == CHOOSE t \in texts : \A u \in texts : TextLeq(t, u)
         IN  <<least>> \o SortTexts(texts \ {least})

getYearlyStats ==
    LET yearOf == [i \in 1..Len(posts) |-> YearColumn(TimestampText(posts[i].timestamp))]
        kept   == { i \in 1..Len(posts) :
                      /\ yearOf[i] # Unknown
                      /\ TextLeq(FirstYear, yearOf[i])
                      /\ TextLeq(yearOf[i], LastYear) }
        years  == SortTexts({ yearOf[i] : i \in kept })
    IN  [k \in 1..Len(years) |->
            [year       |-> years[k],
             post_count |-> Cardinality({ i \in kept : yearOf[i] = years[k] })]]

\* SELECT (SELECT COUNT(*) FROM users WHERE id > 0) as total_users, ...
getForumStats ==
    [total_users     |-> Some(Cardinality({ i \in 1..Len(users) : users[i].id > 0 })),
     total_threads   |-> Some(Len(threads)),
     total_posts     |-> Some(Len(posts)),
     total_languages |-> Some(6)]

NoSuchColumn == "SQLITE_ERROR: no such column: language"

\* The statement names its own result column "language" inside a subquery of
\* its result list.  SQLite resolves the names of the result list before the
\* aliases of that list exist, and threads has the columns id, name and path
\* only, so preparing the statement fails and the query always rejects.
getLanguageStats == Throw(NoSuchColumn)

\* SUBSTR(path, LENGTH('Calendar/Champions of Regnum/') + 1): the path
\* without its first 29 characters, which in every path of the model are the
\* two segments of that prefix
FullCategory(path) == SubSeq(path, 3, Len(path))

\* other LIKE path || '%': other begins with path, ASCII letters compared
\* without case (no segment name of the model is a proper prefix of another)
LikePrefix(other, path) ==
    /\ Len(other) >= Len(path)
    /\ \A i \in 1..Len(path) : LowerSeg(other[i]) = LowerSeg(path[i])

\* one row per full_category, in the order the categories first occur; the
\* post count is that of the posts in threads whose path begins with the
\* path of the group's thread
CategoryGroups ==
    LET firsts == SelectSeq(threads, LAMBDA t :
                    \A i \in 1..Len(threads) :
                        FullCategory(threads[i].path) = FullCategory(t.path)
                            => threads[i].id >= t.id)
    IN  [k \in 1..Len(firsts) |->
            [full_category |-> Some(FullCategory(firsts[k].path)),
             thread_count  |-> Some(Cardinality({ i \in 1..Len(threads) :
                                  FullCategory(threads[i].path)
                                      = FullCategory(firsts[k].path) })),
             post_count    |-> Some(Cardinality({ i \in 1..Len(posts) :
                                  \E j \in 1..Len(threads) :
                                      /\ threads[j].id = posts[i].thread_id
                                      /\ LikePrefix(threads[j].path, firsts[k].path) }))]]

getTopCategories(limit) == LimitOffset(SortByPostCountDesc(CategoryGroups), limit, 0)

-----------------------------------------------------------------------------
(* routes/threads.js: GET /api/threads *)

\* const { page = 1, limit = 20 } = req.query
WithDefault(v, d) == IF v = JsUndef THEN JsNum(d) ELSE v

OkResponse(data) == [status |-> 200, success |-> TRUE, data |-> data]

\* createErrorResponse(message, status, details): error is details, or null
ErrorResponse(message, status, details) ==
    [status |-> status, success |-> FALSE, message |-> message, error |-> details]

\* err.message of a rejected store query
DbError == "SQLITE_ERROR"

\* what a handler did: the response it sent and how many queries it issued
Handled(response, queries) == [res |-> response, queries |-> queries]

\* rows.map(format): the formatted objects, or the first exception thrown
MapFormat(op, rows) ==
    LET out    == [i \in 1..Len(rows) |-> Format(op, Some(rows[i]))]
        thrown == { i \in 1..Len(rows) : IsThrow(out[i]) }
    IN  IF thrown # {} THEN out[CHOOSE i \in thrown : \A j \in thrown : i <= j]
        ELSE Some([i \in 1..Len(rows) |-> out[i].v])

ThreadsRoute(language, category, search, page, limit, pickFirst, failAt) ==
    LET pagination == validatePagination(WithDefault(page, DefaultPage),
                                         WithDefault(limit, DefaultLimit))
        rows == IF TruthySeq(search)
                THEN searchThreads(search.v, language, pickFirst)
                ELSE getThreads(language, category, pagination.limit, pagination.offset)
        formattedThreads == MapFormat("formatThreadForApi", rows)
    IN  IF failAt = 1
        THEN Handled(ErrorResponse("Failed to fetch threads", 500, Some(DbError)), 1)
        ELSE IF IsThrow(formattedThreads)
        THEN Handled(ErrorResponse("Failed to fetch threads", 500,
                                   Some(formattedThreads.threw)), 1)
        ELSE Handled(OkResponse(
                [threads    |-> formattedThreads.v,
                 pagination |-> [page    |-> pagination.page,
                                 limit   |-> pagination.limit,
                                 hasMore |-> Len(formattedThreads.v) = pagination.limit],
                 filters    |-> [language |-> language,
                                 category |-> category,
                                 search   |-> search]]), 1)

-----------------------------------------------------------------------------
(* routes/threads.js: GET /api/threads/:id/posts *)

\* if (!threadId || threadId < 1): NaN, 0 and negatives are refused
BadId(id) == id = NaN \/ id.v = 0 \/ id.v < 1

ThreadPostsRoute(idParam, page, limit, failAt) ==
    LET threadId   == parseInt(idParam)
        pagination == validatePagination(WithDefault(page, DefaultPage),
                                         WithDefault(limit, DefaultLimit))
        thread     == getThread(threadId.v)
        rows       == getPosts(threadId.v, pagination.limit, pagination.offset)
        totalPosts == getPostCount(threadId.v)
        formattedPosts  == MapFormat("formatPostForApi", rows)
        formattedThread == formatThreadForApi(thread)
    IN  IF BadId(threadId)
        THEN Handled(ErrorResponse("Invalid thread ID", 400, None), 0)
        ELSE IF failAt = 1
        THEN Handled(ErrorResponse("Failed to fetch thread posts", 500, Some(DbError)), 1)
        ELSE IF thread = None
        THEN Handled(ErrorResponse("Thread not found", 404, None), 1)
        ELSE IF failAt \in {2, 3}
        THEN Handled(ErrorResponse("Failed to fetch thread posts", 500, Some(DbError)),
                     failAt)
        ELSE IF IsThrow(formattedPosts)
        THEN Handled(ErrorResponse("Failed to fetch thread posts", 500,
                                   Some(formattedPosts.threw)), 3)
        ELSE IF IsThrow(formattedThread)
        THEN Handled(ErrorResponse("Failed to fetch thread posts", 500,
                                   Some(formattedThread.threw)), 3)
        ELSE Handled(OkResponse(
                [posts      |-> formattedPosts.v,
                 thread     |-> formattedThread.v,
                 pagination |-> [page       |-> pagination.page,
                                 limit      |-> pagination.limit,
                                 totalPages |-> CeilDiv(totalPosts, pagination.limit),
                                 totalPosts |-> totalPosts,
                                 hasMore    |-> pagination.offset + Len(rows) < totalPosts,
                                 hasPrev    |-> pagination.page > 1]]), 3)

-----------------------------------------------------------------------------
(* routes/threads.js: GET /api/threads/:id *)

\* the thread detail route, were it to answer "not found" whenever the
\* existence query gave it no row, failed or not
ThreadRouteNotFoundOnFailure(idParam, failAt) ==
    LET threadId  == parseInt(idParam)
        thread    == getThread(threadId.v)
        postCount == getPostCount(threadId.v)
    IN  IF BadId(threadId)
        THEN Handled(ErrorResponse("Invalid thread ID", 400, None), 0)
        ELSE IF failAt = 1 \/ thread = None
        THEN Handled(ErrorResponse("Thread not found", 404, None), 1)
        ELSE IF failAt = 2
        THEN Handled(ErrorResponse("Failed to fetch thread", 500, Some(DbError)), 2)
        ELSE Handled(OkResponse([formatThreadForApi(thread).v
                                    EXCEPT !.postCount = Some(postCount)]), 2)

ThreadRoute(idParam, failAt) ==
    LET threadId  == parseInt(idParam)
        thread    == getThread(threadId.v)
        postCount == getPostCount(threadId.v)
        formatted == formatThreadForApi(thread)
    IN  IF BadId(threadId)
        THEN Handled(ErrorResponse("Invalid thread ID", 400, None), 0)
        ELSE IF failAt = 1
        THEN Handled(ErrorResponse("Failed to fetch thread", 500, Some(DbError)), 1)
        ELSE IF thread = None
        THEN Handled(ErrorResponse("Thread not found", 404, None), 1)
        ELSE IF failAt = 2
        THEN Handled(ErrorResponse("Failed to fetch thread", 500, Some(DbError)), 2)
        ELSE IF IsThrow(formatted)
        THEN Handled(ErrorResponse("Failed to fetch thread", 500, Some(formatted.threw)), 2)
        ELSE Handled(OkResponse([formatted.v EXCEPT !.postCount = Some(postCount)]), 2)

-----------------------------------------------------------------------------
(* routes/users.js: GET /api/users *)

DefaultUserLimit == 50

UsersRoute(search, page, limit, failAt) ==
    LET pagination == validatePagination(WithDefault(page, DefaultPage),
                                         WithDefault(limit, DefaultUserLimit))
        rows       == getUserList(pagination.limit, pagination.offset, search)
        totalUsers == getUserCount(search)
        formattedUsers == MapFormat("formatUserForApi", rows)
    IN  IF failAt \in {1, 2}
        THEN Handled(ErrorResponse("Failed to fetch users", 500, Some(DbError)), failAt)
        ELSE IF IsThrow(formattedUsers)
        THEN Handled(ErrorResponse("Failed to fetch users", 500,
                                   Some(formattedUsers.threw)), 2)
        ELSE Handled(OkResponse(
                [users      |-> formattedUsers.v,
                 pagination |-> [page       |-> pagination.page,
                                 limit      |-> pagination.limit,
                                 totalPages |-> CeilDiv(totalUsers, pagination.limit),
                                 totalUsers |-> totalUsers,
                                 hasNext    |-> pagination.offset + Len(rows) < totalUsers,
                                 hasPrev    |-> pagination.page > 1,
                                 startItem  |-> pagination.offset + 1,
                                 endItem    |-> Min(pagination.offset + pagination.limit,
                                                    totalUsers)],
                 search     |-> search]), 2)

-----------------------------------------------------------------------------
(* routes/users.js: GET /api/users/:id, /:id/posts and /:id/threads *)

UserRoute(idParam, failAt) ==
    LET userId == parseInt(idParam)
        user   == getUserWithStats(userId.v)
    IN  IF BadId(userId)
        THEN Handled(ErrorResponse("Invalid user ID", 400, None), 0)
        ELSE IF failAt = 1
        THEN Handled(ErrorResponse("Failed to fetch user", 500, Some(DbError)), 1)
        ELSE IF user = None
        THEN Handled(ErrorResponse("User not found", 404, None), 1)
        ELSE IF failAt = 2
        THEN Handled(ErrorResponse("Failed to fetch user", 500, Some(DbError)), 2)
        ELSE Handled(OkResponse(formatUserForApi(user).v), 2)

UserPostsRoute(idParam, page, limit, failAt) ==
    LET userId     == parseInt(idParam)
        pagination == validatePagination(WithDefault(page, DefaultPage),
                                         WithDefault(limit, DefaultLimit))
        user       == getUserWithStats(userId.v)
        rows       == getUserPosts(userId.v, pagination.limit, pagination.offset)
        totalPosts == OrZero(Get(user.v, "total_posts"))
        formattedPosts == MapFormat("formatPostForApi", rows)
    IN  IF BadId(userId)
        THEN Handled(ErrorResponse("Invalid user ID", 400, None), 0)
        ELSE IF failAt = 1
        THEN Handled(ErrorResponse("Failed to fetch user posts", 500, Some(DbError)), 1)
        ELSE IF user = None
        THEN Handled(ErrorResponse("User not found", 404, None), 1)
        ELSE IF failAt \in {2, 3}
        THEN Handled(ErrorResponse("Failed to fetch user posts", 500, Some(DbError)),
                     failAt)
        ELSE IF IsThrow(formattedPosts)
        THEN Handled(ErrorResponse("Failed to fetch user posts", 500,
                                   Some(formattedPosts.threw)), 3)
        ELSE Handled(OkResponse(
                [posts      |-> formattedPosts.v,
                 user       |-> formatUserForApi(user).v,
                 pagination |-> [page       |-> pagination.page,
                                 limit      |-> pagination.limit,
                                 totalPages |-> CeilDiv(totalPosts, pagination.limit),
                                 totalPosts |-> totalPosts,
                                 hasMore    |-> pagination.offset + Len(rows) < totalPosts,
                                 hasPrev    |-> pagination.page > 1]]), 3)

UserThreadsRoute(idParam, page, limit, failAt) ==
    LET userId       == parseInt(idParam)
        pagination   == validatePagination(WithDefault(page, DefaultPage),
                                           WithDefault(limit, DefaultLimit))
        user         == getUserWithStats(userId.v)
        rows         == getUserThreads(userId.v, pagination.limit, pagination.offset)
        totalThreads == OrZero(Get(user.v, "total_threads"))
        formattedThreads == MapFormat("formatThreadForApi", rows)
    IN  IF BadId(userId)
        THEN Handled(ErrorResponse("Invalid user ID", 400, None), 0)
        ELSE IF failAt = 1
        THEN Handled(ErrorResponse("Failed to fetch user threads", 500, Some(DbError)), 1)
        ELSE IF user = None
        THEN Handled(ErrorResponse("User not found", 404, None), 1)
        ELSE IF failAt \in {2, 3}
        THEN Handled(ErrorResponse("Failed to fetch user threads", 500, Some(DbError)),
                     failAt)
        ELSE IF IsThrow(formattedThreads)
        THEN Handled(ErrorResponse("Failed to fetch user threads", 500,
                                   Some(formattedThreads.threw)), 3)
        ELSE Handled(OkResponse(
                [threads    |-> formattedThreads.v,
                 user       |-> formatUserForApi(user).v,
                 pagination |-> [page         |-> pagination.page,
                                 limit        |-> pagination.limit,
                                 totalPages   |-> CeilDiv(totalThreads, pagination.limit),
                                 totalThreads |-> totalThreads,
                                 hasMore      |-> pagination.offset + Len(rows) < totalThreads,
                                 hasPrev      |-> pagination.page > 1]]), 3)

-----------------------------------------------------------------------------
(* routes/stats.js *)

\* Math.round(part / whole * 100 * 100) / 100, as a number of hundredths
Percentage(part, whole) == (2 * part * 10000 + whole) \div (2 * whole)

\* the largest of the post counts, 0 for no rows
MaxPostCount(rows) ==
    IF rows = <<>> THEN 0
    ELSE LET counts == { rows[i].post_count : i \in 1..Len(rows) }
         IN  CHOOSE m \in counts : \A c \in counts : c <= m

SumPostCount(rows) ==
    LET F[i \in 0..Len(rows)] == IF i = 0 THEN 0 ELSE F[i - 1] + rows[i].post_count
    IN  F[Len(rows)]

\* reduce((peak, year) => year.post_count > peak.post_count ? year : peak)
PeakYear(rows) ==
    LET F[i \in 0..Len(rows)] ==
            IF i = 0 THEN [year |-> <<"N", "/", "A">>, post_count |-> 0]
            ELSE IF rows[i].post_count > F[i - 1].post_count THEN rows[i] ELSE F[i - 1]
    IN  F[Len(rows)]

\* GET /api/stats/activity
ActivityRoute(failAt) ==
    LET yearlyStats    == getYearlyStats
        maxYearlyPosts == MaxPostCount(yearlyStats)
        total          == SumPostCount(yearlyStats)
        peak           == PeakYear(yearlyStats)
    IN  IF failAt = 1
        THEN Handled(ErrorResponse("Failed to fetch activity statistics", 500,
                                   Some(DbError)), 1)
        ELSE Handled(OkResponse(
                [yearlyActivity |->
                    [i \in 1..Len(yearlyStats) |->
                        [year       |-> yearlyStats[i].year,
                         post_count |-> yearlyStats[i].post_count,
                         percentage |-> IF maxYearlyPosts > 0
                                        THEN Percentage(yearlyStats[i].post_count,
                                                        maxYearlyPosts)
                                        ELSE 0]],
                 insights |->
                    [totalYears    |-> Len(yearlyStats),
                     totalPosts    |-> total,
                     peakYear      |-> peak.year,
                     peakYearPosts |-> peak.post_count,
                     averagePostsPerYear |->
                        IF Len(yearlyStats) > 0
                        THEN (2 * total + Len(yearlyStats)) \div (2 * Len(yearlyStats))
                        ELSE 0]]), 1)

\* the rows of languages other than 'Other', each with its share of all
\* posts, sorted by post_count descending
FormatLanguageStats(languageStats, totalPosts) ==
    LET listed == SelectSeq(languageStats, LAMBDA lang : lang.language # Some("Other"))
    IN  SortByPostCountDesc(
            [i \in 1..Len(listed) |->
                [language     |-> listed[i].language,
                 thread_count |-> listed[i].thread_count,
                 post_count   |-> listed[i].post_count,
                 percentage   |-> IF totalPosts > 0
                                  THEN Percentage(listed[i].post_count.v, totalPosts)
                                  ELSE 0]])

\* GET /api/stats/languages
LanguagesRoute(failAt) ==
    LET languageStats == getLanguageStats
        forumStats    == getForumStats
    IN  IF failAt = 1
        THEN Handled(ErrorResponse("Failed to fetch language statistics", 500,
                                   Some(DbError)), 1)
        ELSE IF IsThrow(languageStats)
        THEN Handled(ErrorResponse("Failed to fetch language statistics", 500,
                                   Some(languageStats.threw)), 1)
        ELSE IF failAt = 2
        THEN Handled(ErrorResponse("Failed to fetch language statistics", 500,
                                   Some(DbError)), 2)
        ELSE Handled(OkResponse(FormatLanguageStats(languageStats.v,
                                                    forumStats.total_posts.v)), 2)

DefaultCategoryLimit == 10
MaxCategoryLimit == 50

\* GET /api/stats/categories
CategoriesRoute(limit, failAt) ==
    LET validatedLimit == Min(MaxCategoryLimit,
                              Max(1, NumOr(parseInt(WithDefault(limit, DefaultCategoryLimit)),
                                           DefaultCategoryLimit)))
        topCategories    == getTopCategories(validatedLimit)
        maxCategoryPosts == IF topCategories = <<>> THEN 0
                            ELSE LET counts == { topCategories[i].post_count.v :
                                                    i \in 1..Len(topCategories) }
                                 IN  CHOOSE m \in counts : \A c \in counts : c <= m
    IN  IF failAt = 1
        THEN Handled(ErrorResponse("Failed to fetch category statistics", 500,
                                   Some(DbError)), 1)
        ELSE Handled(OkResponse(
                [i \in 1..Len(topCategories) |->
                    [full_category    |-> topCategories[i].full_category,
                     thread_count     |-> topCategories[i].thread_count,
                     post_count       |-> topCategories[i].post_count,
                     rank             |-> i,
                     percentage       |-> IF maxCategoryPosts > 0
                                          THEN Percentage(topCategories[i].post_count.v,
                                                          maxCategoryPosts)
                                          ELSE 0,
                     display_category |-> [separator |-> " > ",
                                           segments  |-> topCategories[i].full_category.v]]]),
                1)

-----------------------------------------------------------------------------
(* routes/threads.js: GET /api/threads/meta/languages *)

\* the column "language" of the queries: CASE WHEN path LIKE '%/Español/%'
\* THEN 'Español' WHEN ... ELSE 'Other' END
LanguageColumn(path) ==
    IF LikeLanguage(path, "Español") THEN "Español"
    ELSE IF LikeLanguage(path, "English") THEN "English"
    ELSE IF LikeLanguage(path, "Português") THEN "Português"
    ELSE IF LikeLanguage(path, "Deutsch") THEN "Deutsch"
    ELSE IF LikeLanguage(path, "Français") THEN "Français"
    ELSE IF LikeLanguage(path, "Italiano") THEN "Italiano"
    ELSE "Other"

\* the six languages as ORDER BY language puts them
LanguageOrder ==
    <<"Deutsch", "English", "Español", "Français", "Italiano", "Português">>

\* SELECT DISTINCT <language> FROM threads WHERE language != 'Other'
\* ORDER BY language
getLanguages ==
    LET present == SelectSeq(LanguageOrder, LAMBDA l :
                      \E i \in 1..Len(threads) : LanguageColumn(threads[i].path) = l)
    IN  [i \in 1..Len(present) |-> [language |-> present[i]]]

ThreadLanguagesRoute(failAt) ==
    IF failAt = 1
    THEN Handled(ErrorResponse("Failed to fetch languages", 500, Some(DbError)), 1)
    ELSE Handled(OkResponse(getLanguages), 1)

-----------------------------------------------------------------------------
(* The stores the server is started on.  Thread i of a store takes the     *)
(* shape of template pattern[((i - 1) % Len(pattern)) + 1]; its posts are  *)
(* numbered 1.. within the thread.                                         *)

TsChristmas == [a |-> 25, b |-> 12, y |-> 2007, h |-> 11, mi |-> 0, ap |-> "AM"]
TsNewYear   == [a |-> 1,  b |-> 1,  y |-> 2010, h |-> 12, mi |-> 30, ap |-> "PM"]

NoHtml == <<>>
Para == <<[tag |-> "p", attrs |-> {}]>>

UsersTable ==
    <<[id |-> 1, name |-> Some(<<"a", "n", "n">>)],
      [id |-> 2, name |-> Some(<<"b", "o", "b">>)],
      [id |-> 3, name |-> Some(<<>>)],
      [id |-> 4, name |-> Some(<<"c", "a", "r", "l">>)]>>

PrefixEnglish == <<"Calendar", "Champions of Regnum", "English">>
PrefixSpanish == <<"Calendar", "Champions of Regnum", "Español">>

Templates ==
    <<[name  |-> <<"a", "b">>,
       path  |-> PrefixEnglish \o <<"General">>,
       posts |-> <<[user_id |-> 1, timestamp |-> TsEuropean,
                    message |-> [text |-> <<"b">>, html |-> Para]]>>],
      [name  |-> <<"b">>,
       path  |-> PrefixSpanish \o <<"General">>,
       posts |-> <<[user_id |-> 2, timestamp |-> TsChristmas,
                    message |-> [text |-> <<"b", "a">>, html |-> Para]],
                   [user_id |-> 0, timestamp |-> TsNewYear,
                    message |-> [text |-> <<"A">>, html |-> SampleMessage]]>>],
      [name  |-> <<"A", "b">>,
       path  |-> PrefixEnglish \o <<"Tech", "Linux">>,
       posts |-> <<>>],
      [name  |-> <<"b", "b">>,
       path  |-> <<"Calendar", "Champions of Regnum", "english", "General">>,
       posts |-> <<[user_id |-> 1, timestamp |-> TsNewYear,
                    message |-> [text |-> <<"b">>, html |-> NoHtml]],
                   [user_id |-> 3, timestamp |-> TsNewYear,
                    message |-> [text |-> <<"b">>, html |-> NoHtml]]>>],
      [name  |-> <<"b">>,
       path  |-> PrefixEnglish \o <<"Español", "General">>,
       posts |-> <<[user_id |-> 1, timestamp |-> TsEuropean,
                    message |-> [text |-> <<>>, html |-> NoHtml]],
                   [user_id |-> 2, timestamp |-> TsText,
                    message |-> [text |-> <<"b">>, html |-> NoHtml]]>>]>>

Patterns == SeqsUpTo(1..Len(Templates), MaxPattern) \ {<<>>}

LargePatterns == {<<1>>}

TemplateOf(pattern, i) == Templates[pattern[((i - 1) % Len(pattern)) + 1]]

BuildThreads(n, pattern) ==
    [i \in 1..n |-> [id   |-> i,
                     name |-> TemplateOf(pattern, i).name,
                     path |-> TemplateOf(pattern, i).path]]

BuildPosts(n, pattern) ==
    LET slots == [j \in 1..(n * MaxThreadPosts) |->
                    [thread_id |-> ((j - 1) \div MaxThreadPosts) + 1,
                     post_no   |-> ((j - 1) % MaxThreadPosts) + 1,
                     id        |-> j]]
        used  == SelectSeq(slots, LAMBDA sl :
                    sl.post_no <= Len(TemplateOf(pattern, sl.thread_id).posts))
    IN  [k \in 1..Len(used) |->
            LET tp == TemplateOf(pattern, used[k].thread_id).posts[used[k].post_no]
            IN  [id        |-> used[k].id,
                 thread_id |-> used[k].thread_id,
                 post_no   |-> used[k].post_no,
                 user_id   |-> tp.user_id,
                 timestamp |-> tp.timestamp,
                 message   |-> tp.message]]

Reverse(rows) == [i \in 1..Len(rows) |-> rows[Len(rows) + 1 - i]]

\* a store is n threads following a pattern; the rows of its posts table lie
\* in the order they were imported, or in the opposite order
StoreShapes ==
    { <<n, pattern, reversed>> :
        n \in 0..MaxThreads, pattern \in Patterns, reversed \in BOOLEAN }
    \cup { <<n, pattern, FALSE>> : n \in {ScenarioThreads, SearchLimit + 1},
                                   pattern \in LargePatterns }

-----------------------------------------------------------------------------
(* The server: started on a store, it answers one request at a time; each  *)
(* action is one route handler run to its response.                        *)

Languages == {None, Some("English"), Some("Español")}
Categories == {None, Some(<<"General">>)}
Searches == {None, Some(<<"a">>), Some(<<"A", "b">>)}
Pages == {JsUndef, JsStr(<<"2">>), JsStr(<<"3">>)}
Limits == {JsUndef, JsStr(<<"1">>), JsStr(<<"2">>)}
IdParams ==
    {JsStr(<<"1">>), JsStr(<<"2">>), JsStr(<<"9">>), JsStr(<<"0">>),
     JsStr(<<"-", "1">>), JsStr(<<"a">>), JsStr(<<"1", "a">>)}
UserSearches == {None, Some(<<"a">>), Some(<<"B">>), Some(<<"z">>)}

Init ==
    /\ \E shape \in StoreShapes :
          /\ threads = BuildThreads(shape[1], shape[2])
          /\ posts = IF shape[3] THEN Reverse(BuildPosts(shape[1], shape[2]))
                             ELSE BuildPosts(shape[1], shape[2])
    /\ users = UsersTable
    /\ req = [op |-> "none"]
    /\ resp = None
    /\ issued = 0
    /\ nodeEnv = "development"
    /\ dbState = "open"
    /\ listening = TRUE
    /\ running = TRUE
    /\ NoClient

\* the server answers while it listens and the process runs
Serving == listening /\ running

\* which query of a handler fails: none or any one of its n queries while
\* the connection is open, the first one when it is not; while the
\* connection is still opening the query waits and the handler has no
\* outcome yet
FailAts(n) ==
    CASE dbState = "open"    -> 0..n
      [] dbState = "opening" -> {}
      [] OTHER               -> {1}

GetThreads ==
    /\ Idle
    /\ Serving
    /\ \E language \in Languages, category \in Categories, search \in Searches,
          page \in Pages, limit \in Limits :
       \E pickFirst \in (IF TruthySeq(search) THEN BOOLEAN ELSE {TRUE}),
          failAt \in FailAts(1) :
          LET done == ThreadsRoute(language, category, search, page, limit,
                                   pickFirst, failAt)
          IN  /\ req' = [op |-> "GET /threads", language |-> language,
                         category |-> category, search |-> search,
                         page |-> page, limit |-> limit, failAt |-> failAt]
              /\ resp' = done.res
              /\ issued' = done.queries
    /\ UNCHANGED envVars

GetThreadPosts ==
    /\ Idle
    /\ Serving
    /\ \E id \in IdParams, page \in Pages, limit \in Limits, failAt \in FailAts(3) :
          LET done == ThreadPostsRoute(id, page, limit, failAt)
          IN  /\ req' = [op |-> "GET /threads/:id/posts", id |-> id,
                         page |-> page, limit |-> limit, failAt |-> failAt]
              /\ resp' = done.res
              /\ issued' = done.queries
    /\ UNCHANGED envVars

GetUsers ==
    /\ Idle
    /\ Serving
    /\ \E search \in UserSearches, page \in Pages, limit \in Limits, failAt \in FailAts(2) :
          LET done == UsersRoute(search, page, limit, failAt)
          IN  /\ req' = [op |-> "GET /users", search |-> search,
                         page |-> page, limit |-> limit, failAt |-> failAt]
              /\ resp' = done.res
              /\ issued' = done.queries
    /\ UNCHANGED envVars

\* GetThread on a store that drops the thread it has read
GetThreadConsuming ==
    /\ Idle
    /\ Serving
    /\ \E id \in IdParams, failAt \in FailAts(2) :
          LET done == ThreadRoute(id, failAt)
          IN  /\ req' = [op |-> "GET /threads/:id", id |-> id, failAt |-> failAt]
              /\ resp' = done.res
              /\ issued' = done.queries
              /\ threads' = SelectSeq(threads, LAMBDA t :
                                Some(t.id) # parseInt(id))
    /\ UNCHANGED <<posts, users, nodeEnv, dbState, listening, running, clientVars>>

GetThread ==
    /\ Idle
    /\ Serving
    /\ \E id \in IdParams, failAt \in FailAts(2) :
          LET done == ThreadRoute(id, failAt)
          IN  /\ req' = [op |-> "GET /threads/:id", id |-> id, failAt |-> failAt]
              /\ resp' = done.res
              /\ issued' = done.queries
    /\ UNCHANGED envVars

GetUser ==
    /\ Idle
    /\ Serving
    /\ \E id \in IdParams, failAt \in FailAts(2) :
          LET done == UserRoute(id, failAt)
          IN  /\ req' = [op |-> "GET /users/:id", id |-> id, failAt |-> failAt]
              /\ resp' = done.res
              /\ issued' = done.queries
    /\ UNCHANGED envVars

GetUserPosts ==
    /\ Idle
    /\ Serving
    /\ \E id \in IdParams, page \in Pages, limit \in Limits, failAt \in FailAts(3) :
          LET done == UserPostsRoute(id, page, limit, failAt)
          IN  /\ req' = [op |-> "GET /users/:id/posts", id |-> id,
                         page |-> page, limit |-> limit, failAt |-> failAt]
              /\ resp' = done.res
              /\ issued' = done.queries
    /\ UNCHANGED envVars

GetUserThreads ==
    /\ Idle
    /\ Serving
    /\ \E id \in IdParams, page \in Pages, limit \in Limits, failAt \in FailAts(3) :
          LET done == UserThreadsRoute(id, page, limit, failAt)
          IN  /\ req' = [op |-> "GET /users/:id/threads", id |-> id,
                         page |-> page, limit |-> limit, failAt |-> failAt]
              /\ resp' = done.res
              /\ issued' = done.queries
    /\ UNCHANGED envVars

GetActivity ==
    /\ Idle
    /\ Serving
    /\ \E failAt \in FailAts(1) :
          LET done == ActivityRoute(failAt)
          IN  /\ req' = [op |-> "GET /stats/activity", failAt |-> failAt]
              /\ resp' = done.res
              /\ issued' = done.queries
    /\ UNCHANGED envVars

GetLanguageStats ==
    /\ Idle
    /\ Serving
    /\ \E failAt \in FailAts(2) :
          LET done == LanguagesRoute(failAt)
          IN  /\ req' = [op |-> "GET /stats/languages", failAt |-> failAt]
              /\ resp' = done.res
              /\ issued' = done.queries
    /\ UNCHANGED envVars

GetLanguages ==
    /\ Idle
    /\ Serving
    /\ \E failAt \in FailAts(1) :
          LET done == ThreadLanguagesRoute(failAt)
          IN  /\ req' = [op |-> "GET /threads/meta/languages", failAt |-> failAt]
              /\ resp' = done.res
              /\ issued' = done.queries
    /\ UNCHANGED envVars

GetCategoryStats ==
    /\ Idle
    /\ Serving
    /\ \E limit \in Limits, failAt \in FailAts(1) :
          LET done == CategoriesRoute(limit, failAt)
          IN  /\ req' = [op |-> "GET /stats/categories", limit |-> limit,
                         failAt |-> failAt]
              /\ resp' = done.res
              /\ issued' = done.queries
    /\ UNCHANGED envVars

Next ==
    \/ GetThreads
    \/ GetThread
    \/ GetThreadPosts
    \/ GetUsers
    \/ GetUser
    \/ GetUserPosts
    \/ GetUserThreads
    \/ GetActivity
    \/ GetLanguageStats
    \/ GetCategoryStats
    \/ GetLanguages
    \/ Return

Spec == Init /\ [][Next]_vars

-----------------------------------------------------------------------------
(* The process from start to exit: database.js opens the connection when   *)
(* it is loaded, server.js starts listening, the signal handlers of both   *)
(* modules end the process.  Requests are answered as above.               *)

NodeEnvs == {"production", "development"}

ProcessStores == { <<n, <<k>>, FALSE>> : n \in 0..1, k \in 1..Len(Templates) }

InitProcess ==
    /\ \E shape \in ProcessStores :
          /\ threads = BuildThreads(shape[1], shape[2])
          /\ posts = BuildPosts(shape[1], shape[2])
    /\ users = UsersTable
    /\ req = [op |-> "none"]
    /\ resp = None
    /\ issued = 0
    /\ nodeEnv \in NodeEnvs
    /\ dbState = "opening"
    /\ listening = FALSE
    /\ running = TRUE
    /\ NoClient

\* Database.connect: the open callback without an error resolves
ConnectOk ==
    /\ running
    /\ dbState = "opening"
    /\ dbState' = "open"
    /\ UNCHANGED <<storeVars, clientVars, req, resp, issued, nodeEnv, listening, running>>

\* Database.connect: the open callback with an error rejects, and
\* db.connect().catch(console.error) logs the rejection
ConnectFail ==
    /\ running
    /\ dbState = "opening"
    /\ dbState' = "failed"
    /\ UNCHANGED <<storeVars, clientVars, req, resp, issued, nodeEnv, listening, running>>

\* app.listen(PORT, ...)
Listen ==
    /\ running
    /\ ~listening
    /\ listening' = TRUE
    /\ UNCHANGED <<storeVars, clientVars, req, resp, issued, nodeEnv, dbState, running>>

\* db.close() as a signal handler of database.js calls it: the close is
\* started unless one is under way or done
CloseStarted == IF dbState \in {"closing", "closed"} THEN dbState ELSE "closing"

\* SIGINT: the handler of database.js starts the close and awaits it
Sigint ==
    /\ running
    /\ dbState' = CloseStarted
    /\ UNCHANGED <<storeVars, clientVars, req, resp, issued, nodeEnv, listening, running>>

\* SIGTERM: the handler of database.js starts the close and awaits it, then
\* the handler of server.js, registered after it, calls process.exit(0)
Sigterm ==
    /\ running
    /\ dbState' = CloseStarted
    /\ running' = FALSE
    /\ UNCHANGED <<storeVars, clientVars, req, resp, issued, nodeEnv, listening>>

\* Database.close: the close callback resolves the promise
CloseDone ==
    /\ running
    /\ dbState = "closing"
    /\ dbState' = "closed"
    /\ UNCHANGED <<storeVars, clientVars, req, resp, issued, nodeEnv, listening, running>>

\* the awaiting handler of database.js resumes: process.exit(0)
ExitAfterClose ==
    /\ running
    /\ dbState = "closed"
    /\ running' = FALSE
    /\ UNCHANGED <<storeVars, clientVars, req, resp, issued, nodeEnv, dbState, listening>>

NextProcess ==
    \/ ConnectOk
    \/ ConnectFail
    \/ Listen
    \/ Sigint
    \/ Sigterm
    \/ CloseDone
    \/ ExitAfterClose
    \/ GetThreads
    \/ GetThread
    \/ GetUser
    \/ Return

SpecProcess == InitProcess /\ [][NextProcess]_vars

-----------------------------------------------------------------------------
(* Claims about the helpers, checked under SpecHelpers *)

\* C1: for every requested page and limit (an integer, zero or negative, a
\* non-numeric string, a missing value) validatePagination returns
\* page >= 1, 1 <= limit <= 100 and offset = (page - 1) * limit.
C1_PaginationClamped ==
    req.op = "validatePagination" =>
        /\ resp.page >= 1
        /\ resp.limit >= 1
        /\ resp.limit <= 100
        /\ resp.offset = (resp.page - 1) * resp.limit

\* a negative page and a limit above 100 were asked for and clamped
C1_Witness ==
    /\ req.op = "validatePagination"
    /\ req.page = JsStr(<<"-", "1">>)
    /\ req.limit = JsStr(<<"1", "0", "1">>)
    /\ resp = [page |-> 1, limit |-> 100, offset |-> 0]

LanguagePriority ==
    <<"Español", "English", "Português", "Deutsch", "Français", "Italiano">>

\* C5: getLanguageFromPath returns the first language, in the priority order
\* Español, English, Português, Deutsch, Français, Italiano, whose
\* '/<language>/' segment the path contains, and 'Other' exactly when the
\* path contains none of the six.
C5_LanguageFirstInPriority ==
    req.op = "getLanguageFromPath" =>
        LET hits == { i \in 1..Len(LanguagePriority) :
                        \E k \in 2..(Len(req.path) - 1) :
                            req.path[k] = LanguagePriority[i] }
        IN  IF hits = {}
            THEN resp = "Other"
            ELSE /\ resp # "Other"
                 /\ \E i \in hits : /\ resp = LanguagePriority[i]
                                    /\ \A j \in hits : i <= j

\* a path holding two recognised languages, the later in priority first
C5_Witness ==
    /\ req.op = "getLanguageFromPath"
    /\ req.path = <<"General", "English", "Español", "General">>
    /\ resp = "Español"

CategoryPrefix == <<"Calendar", "Champions of Regnum">>

\* C6: for every path of at least four segments category resolution returns
\* the whole remainder of the path after the prefix
\* 'Calendar/Champions of Regnum/' and the language segment (a remainder of
\* several segments entire); for fewer than four segments it returns
\* 'General'.
C6_CategoryIsWholeRemainder ==
    req.op = "getCategoryFromPath" =>
        IF Len(req.path) >= 4
        THEN (SubSeq(req.path, 1, 2) = CategoryPrefix /\ req.path[3] = "English")
                => resp = SubSeq(req.path, 4, Len(req.path))
        ELSE resp = <<"General">>

\* C7: the three formatters never throw: null gives null, and any row,
\* whichever of its fields are null or absent (a thread row with a null or
\* missing path included), gives a formatted object.
C7_FormattersNeverThrow ==
    req.op \in FormatOps =>
        /\ ~IsThrow(resp)
        /\ req.arg = None => resp = None
        /\ req.arg # None => "v" \in DOMAIN resp

\* C8: formatting is idempotent: the formatter applied to its own result
\* returns an equal object.
C8_FormatIdempotent ==
    (req.op \in FormatOps /\ req.again) => resp = req.arg

PreservedTags == {"p", "a", "img"}

-----------------------------------------------------------------------------
(* Claims about the routes, checked under Spec *)

IsOk(r) == "status" \in DOMAIN r /\ r.status = 200

ThreadIds(list) == [i \in 1..Len(list) |-> list[i].id.v]

\* C4: a thread list without a search term, whose filters match N threads,
\* returns exactly the threads at positions (page-1)*limit+1 ..
\* min(page*limit, N) of the ordered matching set, and its pagination object
\* carries totalPages = ceil(N/limit), hasNext = (page < totalPages) and
\* hasPrev = (page > 1).
C4_ThreadListPage ==
    (req.op = "GET /threads" /\ ~TruthySeq(req.search) /\ IsOk(resp)) =>
        LET ordered == OrderedThreads(req.language, req.category)
            N       == Len(ordered)
            page    == resp.data.pagination.page
            limit   == resp.data.pagination.limit
            first   == (page - 1) * limit + 1
            last    == Min(page * limit, N)
            pg      == resp.data.pagination
        IN  /\ ThreadIds(resp.data.threads) =
                  [i \in 1..Max(0, last - first + 1) |-> ordered[first + i - 1].id.v]
            /\ {"totalPages", "hasNext", "hasPrev"} \subseteq DOMAIN pg
            /\ pg.totalPages = CeilDiv(N, limit)
            /\ pg.hasNext = (page < pg.totalPages)
            /\ pg.hasPrev = (page > 1)

\* text contains term, letter case ignored
ContainsTerm(text, term) ==
    \E i \in 0..(Len(text) - Len(term)) :
        \A k \in 1..Len(term) : Lower(text[i + k]) = Lower(term[k])

C2_UserRangeOrdered ==
    (req.op = "GET /users" /\ IsOk(resp) /\ resp.data.pagination.totalUsers > 0) =>
        /\ resp.data.pagination.startItem <= resp.data.pagination.endItem
        /\ resp.data.pagination.endItem <= resp.data.pagination.totalUsers

\* the total and the has-next flag of a paginated list response
Total(pg) ==
    IF "totalUsers" \in DOMAIN pg THEN pg.totalUsers
    ELSE IF "totalThreads" \in DOMAIN pg THEN pg.totalThreads
    ELSE pg.totalPosts
HasNext(pg) == IF "hasNext" \in DOMAIN pg THEN pg.hasNext ELSE pg.hasMore

\* C3: in every paginated list response totalPages = ceil(total / limit);
\* when total is 0, totalPages is 0 and both the has-next flag and hasPrev
\* are false, whatever page was requested.
C3_TotalPages ==
    (req.op \in {"GET /users", "GET /threads/:id/posts",
                 "GET /users/:id/posts", "GET /users/:id/threads"} /\ IsOk(resp)) =>
        LET pg == resp.data.pagination
        IN  /\ pg.totalPages * pg.limit >= Total(pg)
            /\ (pg.totalPages - 1) * pg.limit < Total(pg)
            /\ Total(pg) = 0 =>
                  (pg.totalPages = 0 /\ ~HasNext(pg) /\ ~pg.hasPrev)

\* the moment a stored day-month-year timestamp names, as a comparable key
Hour24(ts) == (ts.h % 12) + (IF ts.ap = "PM" THEN 12 ELSE 0)
ChronoKey(ts) == <<ts.y, ts.b, ts.a, Hour24(ts), ts.mi>>
ChronoLess(x, y) == LexLess(ChronoKey(x), ChronoKey(y))

HasPosts(threadId) == PostsOf(threadId) # <<>>

AllStored(threadId) ==
    \A p \in Range(PostsOf(threadId)) : IsStoredTimestamp(p.timestamp)

\* thread x's most recent post is chronologically later than thread y's
LaterActivity(x, y) ==
    \E p \in Range(PostsOf(x)) :
        \A q \in Range(PostsOf(y)) : ChronoLess(q.timestamp, p.timestamp)

\* C11: in a thread list without a search term, of two returned threads that
\* both have posts the one whose most recent post is chronologically later
\* comes first, and every thread without posts comes after every thread
\* with posts.
C11_RecentActivityFirst ==
    (req.op = "GET /threads" /\ ~TruthySeq(req.search) /\ IsOk(resp)) =>
        LET ids == ThreadIds(resp.data.threads)
        IN  \A i, j \in 1..Len(ids) :
                i < j =>
                    /\ (HasPosts(ids[i]) /\ HasPosts(ids[j])
                            /\ AllStored(ids[i]) /\ AllStored(ids[j])) =>
                            ~LaterActivity(ids[j], ids[i])
                    /\ HasPosts(ids[j]) => HasPosts(ids[i])

\* the pages 1..n of a thread's posts at one limit, one after the other
RECURSIVE PostPages(_, _, _)
PostPages(idParam, limit, n) ==
    IF n = 0 THEN <<>>
    ELSE PostPages(idParam, limit, n - 1)
            \o ThreadPostsRoute(idParam, JsNum(n), limit, 0).res.data.posts

PostIds(list) == [i \in 1..Len(list) |-> list[i].id.v]

\* C12: for an existing thread and any limit, the post pages 1..totalPages
\* of GET /threads/{id}/posts, concatenated, hold every post of that thread
\* exactly once, in ascending post_no, and no post of another thread; a page
\* beyond totalPages is empty with hasMore false.
C12_PostPagesPartition ==
    (req.op = "GET /threads/:id/posts" /\ IsOk(resp)) =>
        LET pg   == resp.data.pagination
            tid  == parseInt(req.id).v
            all  == PostPages(req.id, req.limit, pg.totalPages)
            mine == { i \in 1..Len(posts) : posts[i].thread_id = tid }
        IN  /\ \A i \in 1..Len(all) : all[i].threadId = Some(tid)
            /\ { all[i].id.v : i \in 1..Len(all) } = { posts[i].id : i \in mine }
            /\ Len(all) = Cardinality(mine)
            /\ \A i, j \in 1..Len(all) : i < j => all[i].postNo.v < all[j].postNo.v
            /\ pg.page > pg.totalPages =>
                    (resp.data.posts = <<>> /\ ~pg.hasMore)

\* a second page of one post each, of a thread whose posts the table holds
\* newest first
C12_Witness ==
    /\ req.op = "GET /threads/:id/posts"
    /\ IsOk(resp)
    /\ resp.data.pagination.page = 2
    /\ resp.data.pagination.totalPages = 2
    /\ PostIds(resp.data.posts) = <<4>>
    /\ \E i, j \in 1..Len(posts) :
          i < j /\ posts[i].id = 4 /\ posts[j].id = 3

ThreadIdOps == {"GET /threads/:id", "GET /threads/:id/posts"}
UserIdOps == {"GET /users/:id", "GET /users/:id/posts", "GET /users/:id/threads"}

\* the row the identifier of the request names is in the store
RowExists ==
    LET id == parseInt(req.id).v
    IN  IF req.op \in ThreadIdOps
        THEN \E i \in 1..Len(threads) : threads[i].id = id
        ELSE \E i \in 1..Len(users) : users[i].id = id

WellFormedId == ~BadId(parseInt(req.id))

\* C13: on the thread and user routes a well-formed identifier without a
\* matching row yields 404 with success false, a failed query yields 500
\* with success false, and 404 is returned only when the existence query
\* succeeded and found no row.
C13_NotFoundVsFailure ==
    (req.op \in ThreadIdOps \cup UserIdOps /\ WellFormedId) =>
        /\ (req.failAt # 1 /\ ~RowExists) =>
                (resp.status = 404 /\ ~resp.success)
        /\ (req.failAt = 1 \/ (RowExists /\ req.failAt # 0)) =>
                (resp.status = 500 /\ ~resp.success)
        /\ resp.status = 404 => (req.failAt # 1 /\ ~RowExists)

\* an unknown user's posts are asked for and the existence query succeeds
C13_Witness ==
    /\ req.op = "GET /users/:id/posts"
    /\ req.id = JsStr(<<"9">>)
    /\ req.failAt = 0
    /\ resp.status = 404
    /\ ~resp.success
    /\ issued = 1

\* the text is entirely a positive decimal integer
IsPositiveDecimal(chars) ==
    /\ chars # <<>>
    /\ \A i \in 1..Len(chars) : chars[i] \in Digits
    /\ \E i \in 1..Len(chars) : chars[i] # "0"

\* C14: for every thread or user identifier path parameter that is not
\* entirely a positive decimal integer ('abc', '0', '-3', '12abc', '1.5'),
\* the thread and user routes respond with status 400 and issue no query to
\* the store.
C14_MalformedIdRefused ==
    (req.op \in ThreadIdOps \cup UserIdOps /\ ~IsPositiveDecimal(req.id.s)) =>
        (resp.status = 400 /\ issued = 0)

\* the response reports a failed store query
QueryFailed == req.op # "none" /\ req.failAt # 0 /\ issued = req.failAt

\* C15: when a store query fails during an API request the response has
\* status 500, and its error field carries the underlying error message only
\* when the environment is not production; in production it carries no
\* detail of the failure.
C15_ErrorDetailHiddenInProduction ==
    QueryFailed =>
        /\ resp.status = 500
        /\ resp.error = IF nodeEnv = "production" THEN None ELSE Some(DbError)

\* C19: on every termination signal the process exits only after the close
\* of the store connection has completed.
C19_ExitAfterCloseCompleted ==
    ~running => dbState = "closed"

\* C20: if opening the store connection fails at process start, the HTTP
\* server never reaches the state of listening for and serving API requests.
C20_NoServingAfterFailedConnect ==
    dbState = "failed" => ~listening

\* the years 2005..2025 in which a post with a stored timestamp was written
ActiveYears ==
    { y \in 2005..2025 :
        \E i \in 1..Len(posts) :
            IsStoredTimestamp(posts[i].timestamp) /\ posts[i].timestamp.y = y }

\* C16: the yearly activity aggregation returns exactly one bucket per year
\* in 2005..2025 in which at least one post was written, with post_count the
\* number of posts of that year, in ascending year order; posts with
\* malformed timestamps or years outside the range contribute to no bucket.
C16_YearlyBuckets ==
    (req.op = "GET /stats/activity" /\ IsOk(resp)) =>
        LET buckets == resp.data.yearlyActivity
        IN  /\ { buckets[k].year : k \in 1..Len(buckets) }
                    = { Pad4(y) : y \in ActiveYears }
            /\ Len(buckets) = Cardinality(ActiveYears)
            /\ \A k \in 1..Len(buckets) :
                  \A y \in ActiveYears :
                      buckets[k].year = Pad4(y) =>
                          buckets[k].post_count =
                              Cardinality({ i \in 1..Len(posts) :
                                  /\ IsStoredTimestamp(posts[i].timestamp)
                                  /\ posts[i].timestamp.y = y })
            /\ \A k \in 1..(Len(buckets) - 1) :
                  TextLeq(buckets[k].year, buckets[k + 1].year)

ThreadsOfLanguage(language) ==
    { i \in 1..Len(threads) : getLanguageFromPath(threads[i].path) = language }

PostsOfLanguage(language) ==
    { i \in 1..Len(posts) :
        \E j \in ThreadsOfLanguage(language) : threads[j].id = posts[i].thread_id }

\* C17: the per-language breakdown lists each language with thread_count
\* the number of threads resolved to it, post_count the number of posts in
\* those threads and percentage post_count / grand total of posts (0 without
\* posts), rounded to two decimals; 'Other' is never listed and the listed
\* post_counts sum to at most the grand total.
C17_LanguageBreakdown ==
    (req.op = "GET /stats/languages" /\ req.failAt = 0) =>
        /\ IsOk(resp)
        /\ \A k \in 1..Len(resp.data) :
              LET row == resp.data[k]
              IN  /\ row.language # Some("Other")
                  /\ row.thread_count.v = Cardinality(ThreadsOfLanguage(row.language.v))
                  /\ row.post_count.v = Cardinality(PostsOfLanguage(row.language.v))
                  /\ row.percentage = IF Len(posts) = 0 THEN 0
                                      ELSE Percentage(row.post_count.v, Len(posts))
        /\ SumPostCount([k \in 1..Len(resp.data) |->
                            [post_count |-> resp.data[k].post_count.v]]) <= Len(posts)

\* the posts in the threads of exactly one category path
PostsOfCategory(category) ==
    { i \in 1..Len(posts) :
        \E j \in 1..Len(threads) :
            /\ threads[j].id = posts[i].thread_id
            /\ FullCategory(threads[j].path) = category }

\* C18: the top-categories result lists categories by full category path,
\* each with post_count the number of posts in the threads of exactly that
\* path, in non-increasing post_count order with ranks 1..n, and with
\* percentage = post_count / post_count of the rank-1 category, so rank 1
\* has 100 whenever it has a post and every percentage lies in 0..100.
C18_TopCategories ==
    (req.op = "GET /stats/categories" /\ IsOk(resp)) =>
        LET rows == resp.data
        IN  \A k \in 1..Len(rows) :
                /\ rows[k].rank = k
                /\ rows[k].post_count.v
                        = Cardinality(PostsOfCategory(rows[k].full_category.v))
                /\ k > 1 => rows[k - 1].post_count.v >= rows[k].post_count.v
                /\ rows[k].percentage =
                        IF rows[1].post_count.v = 0 THEN 0
                        ELSE Percentage(rows[k].post_count.v, rows[1].post_count.v)
                /\ rows[k].percentage \in 0..10000
                /\ (k = 1 /\ rows[1].post_count.v > 0) => rows[1].percentage = 10000


-----------------------------------------------------------------------------
(* Claims about the requests as a whole, checked under Spec *)

\* the response the handler of request r computes from the store as it is
\* now; pickFirst is the store's choice among the matching posts of a search
Answer(r, pickFirst) ==
    CASE r.op = "GET /threads" ->
            ThreadsRoute(r.language, r.category, r.search, r.page, r.limit,
                         pickFirst, r.failAt).res
      [] r.op = "GET /threads/:id" -> ThreadRoute(r.id, r.failAt).res
      [] r.op = "GET /threads/:id/posts" ->
            ThreadPostsRoute(r.id, r.page, r.limit, r.failAt).res
      [] r.op = "GET /users" -> UsersRoute(r.search, r.page, r.limit, r.failAt).res
      [] r.op = "GET /users/:id" -> UserRoute(r.id, r.failAt).res
      [] r.op = "GET /users/:id/posts" ->
            UserPostsRoute(r.id, r.page, r.limit, r.failAt).res
      [] r.op = "GET /users/:id/threads" ->
            UserThreadsRoute(r.id, r.page, r.limit, r.failAt).res
      [] r.op = "GET /stats/activity" -> ActivityRoute(r.failAt).res
      [] r.op = "GET /stats/languages" -> LanguagesRoute(r.failAt).res
      [] r.op = "GET /stats/categories" -> CategoriesRoute(r.limit, r.failAt).res
      [] r.op = "GET /threads/meta/languages" -> ThreadLanguagesRoute(r.failAt).res

HelperLanguages == { getLanguageFromPath(threads[i].path) : i \in 1..Len(threads) }

\* C22: the language the queries assign to a path (the CASE ... LIKE column
\* of getLanguages, getAllCategories and getLanguageStats) is the one
\* getLanguageFromPath assigns to it, also when the language segment of the
\* path differs from the recognized name only in letter case; so the
\* language list names exactly the languages getLanguageFromPath finds.
C22_QueryLanguageAgrees ==
    (req.op = "GET /threads/meta/languages" /\ IsOk(resp)) =>
        /\ \A i \in 1..Len(threads) :
              LanguageColumn(threads[i].path) = getLanguageFromPath(threads[i].path)
        /\ { resp.data[i].language : i \in 1..Len(resp.data) }
              = HelperLanguages \ {"Other"}

\* the path ends with '/<category>'
EndsWith(path, category) ==
    /\ Len(path) > Len(category)
    /\ SubSeq(path, Len(path) - Len(category) + 1, Len(path)) = category

\* C23: every filter echoed in the filters object of a thread-list response
\* was applied to the threads returned with it: when a category is echoed the
\* path of every returned thread ends with '/<category>', and when a language
\* is echoed it contains '/<language>/', with or without a search term.
C23_EchoedFiltersApplied ==
    (req.op = "GET /threads" /\ IsOk(resp)) =>
        \A i \in 1..Len(resp.data.threads) :
            LET path == resp.data.threads[i].path.v
                filters == resp.data.filters
            IN  /\ TruthySeq(filters.category) => EndsWith(path, filters.category.v)
                /\ TruthyStr(filters.language) => Includes(path, filters.language.v)

\* the threads started by the user: those whose post with the lowest post_no
\* the user wrote
StartedBy(userId) ==
    { threads[k].id : k \in
        { k \in 1..Len(threads) :
            LET ps == PostsOf(threads[k].id)
            IN  \E i \in 1..Len(ps) :
                   /\ ps[i].user_id = userId
                   /\ \A j \in 1..Len(ps) : ps[i].post_no <= ps[j].post_no } }

\* C24: GET /users/{id}/threads returns the threads started by that user and
\* no others, page by page, and totalThreads in its pagination is the number
\* of threads the user started.
C24_UserThreadsAreStarted ==
    (req.op = "GET /users/:id/threads" /\ IsOk(resp)) =>
        LET started  == StartedBy(parseInt(req.id).v)
            returned == { resp.data.threads[i].id.v : i \in 1..Len(resp.data.threads) }
            pg       == resp.data.pagination
        IN  /\ returned \subseteq started
            /\ pg.totalThreads = Cardinality(started)
            /\ Len(resp.data.threads)
                  = Min(pg.limit, Max(0, Cardinality(started) - (pg.page - 1) * pg.limit))

-----------------------------------------------------------------------------
(* The browser client, api.js: the cache of API responses.  Its methods    *)
(* are synchronous, so each call is one step; the clock moves between the  *)
(* calls.  A cached response is identified by the time it was stored.      *)

\* this.ttl = 5 * 60 * 1000, and the period of setInterval(cleanup)
Ttl == 5 * 60 * 1000
SweepInterval == 5 * 60 * 1000

\* the clock of the model runs MaxMinutes minutes, in steps of a minute or of
\* a millisecond; at most MaxMillis millisecond steps follow a minute step
Minute == 60 * 1000
MaxMinutes == 11
MaxMillis == 1

CacheKeys == {"getLanguages_[]", "getStats_[]"}

\* Map.get, Map.set and Map.delete on a map kept as its entries in insertion
\* order
MapGet(m, key) ==
    LET found == SelectSeq(m, LAMBDA e : e.key = key)
    IN  IF found = <<>> THEN None ELSE Some(found[1])

MapSet(m, key, item) ==
    IF MapGet(m, key) = None
    THEN Append(m, [key |-> key, data |-> item.data, expiry |-> item.expiry])
    ELSE [i \in 1..Len(m) |->
            IF m[i].key = key
            THEN [key |-> key, data |-> item.data, expiry |-> item.expiry]
            ELSE m[i]]

MapDelete(m, key) == SelectSeq(m, LAMBDA e : e.key # key)

\* ApiCache.get that never looks at the expiry
ApiCacheGetUnexpiring(m, key, t) ==
    LET item == MapGet(m, key)
    IN  IF item = None THEN [ret |-> None, cache |-> m]
        ELSE [ret |-> Some(item.v.data), cache |-> m]

\* ApiCache.get(key) at time t: the data returned and the cache afterwards
ApiCacheGet(m, key, t) ==
    LET item == MapGet(m, key)
    IN  IF item = None THEN [ret |-> None, cache |-> m]
        ELSE IF t > item.v.expiry
        THEN [ret |-> None, cache |-> MapDelete(m, key)]
        ELSE [ret |-> Some(item.v.data), cache |-> m]

\* ApiCache.set(key, data, customTtl) at time t
ApiCacheSet(m, key, data, customTtl, t) ==
    MapSet(m, key, [data   |-> data,
                    expiry |-> t + (IF customTtl = None \/ customTtl.v = 0
                                    THEN Ttl ELSE customTtl.v)])

\* ApiCache.cleanup() at time t: the loop over the entries, from entry i on
RECURSIVE CleanupFrom(_, _, _)
CleanupFrom(m, i, t) ==
    IF i > Len(m) THEN m
    ELSE IF t > m[i].expiry THEN CleanupFrom(MapDelete(m, m[i].key), i, t)
    ELSE CleanupFrom(m, i + 1, t)

ApiCacheCleanup(m, t) == CleanupFrom(m, 1, t)

InitCache ==
    /\ NoStore
    /\ NoServer
    /\ req = [op |-> "none"]
    /\ resp = None
    /\ now = 0
    /\ cache = <<>>
    /\ nextSweep = SweepInterval
    /\ queue = <<>>
    /\ requests = <<>>
    /\ router = None
    /\ view = None
    /\ loads = <<>>

\* time passes between two calls
Tick ==
    /\ Idle
    /\ \E step \in {1, Minute} :
          /\ step = 1 => (now % Minute) < MaxMillis
          /\ now + step <= MaxMinutes * Minute + MaxMillis
          /\ now' = now + step
    /\ UNCHANGED <<storeVars, procVars, queueVars, navVars, req, resp, issued, cache, nextSweep>>

\* cache.get(key), as cachedAPI.get calls it first
CacheGet ==
    /\ Idle
    /\ \E key \in CacheKeys :
          LET got == ApiCacheGet(cache, key, now)
          IN  /\ req' = [op |-> "cache.get", key |-> key]
              /\ resp' = got.ret
              /\ cache' = got.cache
    /\ UNCHANGED <<storeVars, procVars, queueVars, navVars, issued, now, nextSweep>>

\* cache.set(key, data), as cachedAPI.get calls it with the fetched response
CacheSet ==
    /\ Idle
    /\ \E key \in CacheKeys :
          /\ req' = [op |-> "cache.set", key |-> key]
          /\ cache' = ApiCacheSet(cache, key, [storedAt |-> now], None, now)
    /\ resp' = None
    /\ UNCHANGED <<storeVars, procVars, queueVars, navVars, issued, now, nextSweep>>

\* the interval timer fires, on time or late, and runs cache.cleanup()
Sweep ==
    /\ Idle
    /\ now >= nextSweep
    /\ req' = [op |-> "cache.cleanup", before |-> cache]
    /\ resp' = None
    /\ cache' = ApiCacheCleanup(cache, now)
    /\ nextSweep' = nextSweep + SweepInterval
    /\ UNCHANGED <<storeVars, procVars, queueVars, navVars, issued, now>>

NextCache ==
    \/ Tick
    \/ CacheGet
    \/ CacheSet
    \/ Sweep
    \/ Return

SpecCache == InitCache /\ [][NextCache]_vars

\* C25: under any interleaving of set, get and the periodic cleanup, a cache
\* read never returns a value later than Ttl (5 minutes) after the time it was
\* stored, and a sweep removes every entry whose expiry has passed and leaves
\* every unexpired entry in place.
C25_CacheExpiry ==
    /\ (req.op = "cache.get" /\ resp # None) => now <= resp.v.storedAt + Ttl
    /\ req.op = "cache.cleanup" =>
          cache = SelectSeq(req.before, LAMBDA e : ~(now > e.expiry))

\* a sweep removed an expired entry and left an unexpired one in place
C25_SweepWitness ==
    /\ req.op = "cache.cleanup"
    /\ Len(req.before) = 2
    /\ Len(cache) = 1

\* a read returned a value exactly Ttl after it was stored
C25_Witness ==
    /\ req.op = "cache.get"
    /\ resp # None
    /\ now = resp.v.storedAt + Ttl

-----------------------------------------------------------------------------
(* The browser client, api.js: the queue that shares one request among the *)
(* callers asking for the same key.  A request is the promise              *)
(* requestFn().finally(...): it is pending until requestFn's promise has   *)
(* settled and the finally callback has run.                               *)

\* the add calls of the model start at most MaxRequests requests
MaxRequests == 3

QueueKeys == {"getThreads_[{}]", "getStats_[]"}

\* this.queue.has(key), this.queue.get(key)
QueueHas(q, key) == \E i \in 1..Len(q) : q[i].key = key
QueueGet(q, key) == (CHOOSE i \in 1..Len(q) : q[i].key = key)

\* RequestQueue.add that starts a request whether or not the key is queued
RequestQueueAddAlways(q, rs, key) ==
    [queue    |-> Append(SelectSeq(q, LAMBDA e : e.key # key),
                         [key |-> key, promise |-> Len(rs) + 1]),
     requests |-> Append(rs, [key |-> key, state |-> "pending", done |-> FALSE]),
     promise  |-> Len(rs) + 1,
     invoked  |-> TRUE]

\* RequestQueue.add(key, requestFn): the queue and the requests afterwards,
\* the promise returned to the caller and whether requestFn was invoked
RequestQueueAdd(q, rs, key) ==
    IF QueueHas(q, key)
    THEN [queue    |-> q,
          requests |-> rs,
          promise  |-> q[QueueGet(q, key)].promise,
          invoked  |-> FALSE]
    ELSE [queue    |-> Append(q, [key |-> key, promise |-> Len(rs) + 1]),
          requests |-> Append(rs, [key |-> key, state |-> "pending", done |-> FALSE]),
          promise  |-> Len(rs) + 1,
          invoked  |-> TRUE]

\* the requests of a key whose promise is pending
Unfinished(rs, key) == { n \in 1..Len(rs) : rs[n].key = key /\ ~rs[n].done }

InitQueue ==
    /\ NoStore
    /\ NoServer
    /\ NoClient
    /\ req = [op |-> "none"]
    /\ resp = None

\* a caller calls requestQueue.add(key, requestFn)
QueueAdd ==
    /\ Idle
    /\ \E key \in QueueKeys :
          LET added == RequestQueueAdd(queue, requests, key)
          IN  /\ Len(added.requests) <= MaxRequests
              /\ req' = [op |-> "queue.add", key |-> key,
                         pending |-> Unfinished(requests, key)]
              /\ resp' = [promise |-> added.promise, invoked |-> added.invoked]
              /\ queue' = added.queue
              /\ requests' = added.requests
    /\ UNCHANGED <<storeVars, procVars, cacheVars, navVars, issued>>

\* the promise of requestFn settles: the response arrived, or the request failed
Settle ==
    /\ Idle
    /\ \E n \in 1..Len(requests), outcome \in {"fulfilled", "rejected"} :
          /\ requests[n].state = "pending"
          /\ requests' = [requests EXCEPT ![n].state = outcome]
    /\ UNCHANGED <<storeVars, procVars, cacheVars, navVars, req, resp, issued, queue>>

\* the finally callback of a settled request runs: this.queue.delete(key);
\* the promise the callers hold then settles with the request's outcome
Finally ==
    /\ Idle
    /\ \E n \in 1..Len(requests) :
          /\ requests[n].state # "pending"
          /\ ~requests[n].done
          /\ queue' = SelectSeq(queue, LAMBDA e : e.key # requests[n].key)
          /\ requests' = [requests EXCEPT ![n].done = TRUE]
    /\ UNCHANGED <<storeVars, procVars, cacheVars, navVars, req, resp, issued>>

NextQueue ==
    \/ QueueAdd
    \/ Settle
    \/ Finally
    \/ Return

SpecQueue == InitQueue /\ [][NextQueue]_vars

\* C28: under any interleaving of add calls and request completions at most
\* one request per key is in flight; an add for a key whose request is
\* pending does not invoke its request function and receives the promise of
\* the pending request, hence its outcome; once a request has settled, with
\* success or failure, its key is no longer queued and an add starts a new
\* request.
C28_OneRequestPerKey ==
    /\ \A key \in QueueKeys : Cardinality(Unfinished(requests, key)) <= 1
    /\ \A key \in QueueKeys :
          QueueHas(queue, key) <=> Unfinished(requests, key) # {}
    /\ \A i \in 1..Len(queue) :
          queue[i].promise \in Unfinished(requests, queue[i].key)
    /\ req.op = "queue.add" =>
          IF req.pending # {}
          THEN ~resp.invoked /\ resp.promise \in req.pending
          ELSE resp.invoked /\ requests[resp.promise].key = req.key

\* a request failed and left the queue, and the next add for its key started
\* a new request
C28_Witness ==
    /\ req.op = "queue.add"
    /\ resp.invoked
    /\ \E n \in 1..Len(requests) :
          /\ n # resp.promise
          /\ requests[n].key = req.key
          /\ requests[n].state = "rejected"
          /\ requests[n].done

-----------------------------------------------------------------------------
(* Further claims about the thread list, checked under Spec *)

\* the threads of the page after the one the response is for, requested with
\* the same filters and limit
NextPageThreads ==
    ThreadsRoute(req.language, req.category, req.search,
                 JsNum(resp.data.pagination.page + 1), req.limit, TRUE, 0).res.data.threads

\* C26: in a thread-list response hasMore = true implies that the next page
\* (same filters and limit, page + 1) holds at least one thread, also when
\* the number of matching threads is an exact multiple of the limit.
C26_HasMoreMeansNextPage ==
    (req.op = "GET /threads" /\ IsOk(resp) /\ resp.data.pagination.hasMore) =>
        NextPageThreads # <<>>

\* C27: every thread returned by a thread list requested with language = L,
\* L one of the six recognized languages, has the formatted language field
\* L, also when its path holds the segments of two recognized languages.
C27_ListedLanguageIsRequested ==
    (req.op = "GET /threads" /\ IsOk(resp) /\ TruthyStr(req.language)) =>
        \A i \in 1..Len(resp.data.threads) :
            resp.data.threads[i].language = Some(req.language.v)

-----------------------------------------------------------------------------
(* The browser client, router.js and app.js: navigation.  A path is the    *)
(* sequence of its parts as split('/') gives them: '/' is <<"", "">>,      *)
(* '/users/5' is <<"", "users", "5">>.  Parameters are records.            *)

\* longest path (in parts) given to navigate, the recursion the engine allows
\* navigate, and the number of loadHomePage calls of a run
MaxPathParts == 3
MaxStack == 2
MaxLoads == 2

HomePath == <<"", "">>

\* setupRoutes(forumApp): the routes in the order they are registered
setupRoutes ==
    <<[path |-> HomePath, name |-> "home"],
      [path |-> <<"", "users">>, name |-> "users"],
      [path |-> <<"", "users", ":id">>, name |-> "user-profile"],
      [path |-> <<"", "threads", ":id">>, name |-> "thread-view"],
      [path |-> <<"", "stats">>, name |-> "stats"],
      [path |-> <<"", "search">>, name |-> "search"]>>

\* the parts the pattern :\w+ matches, and routePart.substring(1)
ParamParts == {":id"}
ParamName(part) == "id"

NoParams == [k \in {} |-> ""]

\* { ...a, ...b }
Merge(a, b) ==
    [k \in (DOMAIN a) \cup (DOMAIN b) |-> IF k \in DOMAIN b THEN b[k] ELSE a[k]]

\* matchRoute that lets a parameter match the empty part
matchRouteEmptyParam(routePath, actualPath) ==
    /\ Len(routePath) = Len(actualPath)
    /\ \A i \in 1..Len(routePath) :
          routePath[i] \in ParamParts \/ routePath[i] = actualPath[i]

\* matchRoute: the pattern with every :name replaced by ([^/]+), anchored
matchRoute(routePath, actualPath) ==
    /\ Len(routePath) = Len(actualPath)
    /\ \A i \in 1..Len(routePath) :
          IF routePath[i] \in ParamParts
          THEN actualPath[i] # ""
          ELSE routePath[i] = actualPath[i]

extractParams(routePath, actualPath) ==
    LET at == { i \in 1..Len(routePath) : routePath[i] \in ParamParts }
    IN  [k \in { ParamName(routePath[i]) : i \in at } |->
            actualPath[CHOOSE i \in at : ParamName(routePath[i]) = k
                                         /\ \A j \in at : ParamName(routePath[j]) = k => j <= i]]

\* findRouteWithParams: the exact match, else the first pattern that matches
findRouteWithParams(routes, path) ==
    LET exact   == { i \in 1..Len(routes) : routes[i].path = path }
        matches == { i \in 1..Len(routes) : matchRoute(routes[i].path, path) }
        first   == CHOOSE i \in matches : \A j \in matches : i <= j
    IN  IF exact # {}
        THEN Some([route |-> routes[CHOOSE i \in exact : TRUE], params |-> NoParams])
        ELSE IF matches # {}
        THEN Some([route  |-> routes[first],
                   params |-> extractParams(routes[first].path, path)])
        ELSE None

\* Router.navigate(path, params, updateHistory) with stack frames left: the
\* router afterwards, the address pushed and the handlers executed
RECURSIVE navigate(_, _, _, _, _)
navigate(r, path, params, updateHistory, stack) ==
    LET routeInfo    == findRouteWithParams(r.routes, path)
        mergedParams == Merge(routeInfo.v.params, params)
    IN  IF stack = 0 THEN Throw("RangeError")
        ELSE IF routeInfo = None
        THEN navigate(r, HomePath, NoParams, TRUE, stack - 1)
        ELSE [router  |-> [r EXCEPT !.currentRoute = Some(path),
                                    !.currentParams = mergedParams],
              url     |-> IF updateHistory
                          THEN Some([path |-> path, params |-> params]) ELSE None,
              handled |-> <<[name |-> routeInfo.v.route.name, params |-> mergedParams]>>]

PathParts == {"", "users", "threads", "5", ":id"}
NavPaths == SeqsUpTo(PathParts, MaxPathParts) \ {<<>>}

NavParams ==
    {NoParams,
     [language |-> "English"],
     [language |-> "English", category |-> "General"],
     [page |-> "2"]}

Param(params, k) == IF k \in DOMAIN params THEN Some(params[k]) ELSE None

\* loadHomePage(params) up to its first await: const { language, category,
\* page = 1 } = params, showLoading, and the request for the thread list sent.
\* concurrent: an earlier call was still waiting for a response
LoadStarted(params, earlier) ==
    [language   |-> Param(params, "language"),
     category   |-> Param(params, "category"),
     page       |-> IF "page" \in DOMAIN params THEN params["page"] ELSE "1",
     pc         |-> "threads",
     concurrent |-> \E i \in 1..Len(earlier) : earlier[i].pc \in {"threads", "categories"}]

\* the main content loadHomePage builds from the responses to its requests
HomeContent(load, withCategories) ==
    [kind       |-> "threads",
     language   |-> load.language,
     category   |-> load.category,
     page       |-> load.page,
     categories |-> withCategories]

\* updatePagination(pagination) with the pagination object of a thread-list
\* response, which has no totalPages: the bar is hidden
updatePagination == "hidden"

InitNav ==
    /\ NoStore
    /\ NoServer
    /\ req = [op |-> "none"]
    /\ resp = None
    /\ now = 0
    /\ cache = <<>>
    /\ nextSweep = 0
    /\ queue = <<>>
    /\ requests = <<>>
    /\ router = [routes |-> setupRoutes, currentRoute |-> None, currentParams |-> NoParams]
    /\ view = [url |-> None, mainContent |-> [kind |-> "loading"], pagination |-> "hidden"]
    /\ loads = <<>>

\* router.navigate(path, params), as the navigation functions call it; the
\* handler of the home route calls loadHomePage, the handlers of the other
\* routes call the loader of their page, which is not followed further
NavigateTo(paths, paramsGiven) ==
    /\ Idle
    /\ \E path \in paths, params \in paramsGiven :
          LET done == navigate(router, path, params, TRUE, MaxStack)
          IN  /\ req' = [op |-> "navigate", path |-> path, params |-> params]
              /\ IF IsThrow(done)
                 THEN /\ resp' = done
                      /\ UNCHANGED navVars
                 ELSE LET home == \E i \in 1..Len(done.handled) :
                                     done.handled[i].name = "home"
                      IN  /\ home => Len(loads) < MaxLoads
                          /\ resp' = [handled |-> done.handled]
                          /\ router' = done.router
                          /\ view' = [view EXCEPT !.url = done.url,
                                                  !.mainContent = [kind |-> "loading"]]
                          /\ loads' = IF home
                                      THEN Append(loads,
                                              LoadStarted(done.handled[1].params, loads))
                                      ELSE loads
    /\ UNCHANGED <<storeVars, procVars, cacheVars, queueVars, issued>>

\* a navigation to any path
Navigate == NavigateTo(NavPaths, {NoParams, [page |-> "2"]})

\* a navigation to the home page: navigateToHome, filterByLanguage,
\* filterByCategory, navigateToPage
NavigateHome == NavigateTo({HomePath}, NavParams)

\* the response to threadsAPI.getThreads of a loadHomePage call arrives, or
\* the request fails; the call goes on to request the categories unless only
\* a category is selected
ThreadsArrive ==
    /\ Idle
    /\ \E i \in 1..Len(loads), ok \in BOOLEAN :
          /\ loads[i].pc = "threads"
          /\ IF ~ok
             THEN /\ view' = [view EXCEPT !.mainContent = [kind |-> "error"]]
                  /\ loads' = [loads EXCEPT ![i].pc = "failed"]
             ELSE IF loads[i].language = None /\ loads[i].category # None
             THEN /\ view' = [view EXCEPT
                                 !.mainContent = HomeContent(loads[i], FALSE),
                                 !.pagination = updatePagination]
                  /\ loads' = [loads EXCEPT ![i].pc = "done"]
             ELSE /\ view' = view
                  /\ loads' = [loads EXCEPT ![i].pc = "categories"]
    /\ UNCHANGED <<storeVars, procVars, cacheVars, queueVars, req, resp, issued, router>>

\* the response to threadsAPI.getCategories arrives, or the request fails:
\* the call writes the main content and the pagination bar
CategoriesArrive ==
    /\ Idle
    /\ \E i \in 1..Len(loads), ok \in BOOLEAN :
          /\ loads[i].pc = "categories"
          /\ view' = [view EXCEPT !.mainContent = HomeContent(loads[i], ok),
                                  !.pagination = updatePagination]
          /\ loads' = [loads EXCEPT ![i].pc = "done"]
    /\ UNCHANGED <<storeVars, procVars, cacheVars, queueVars, req, resp, issued, router>>

NextRouter ==
    \/ Navigate
    \/ Return

SpecRouter == InitNav /\ [][NextRouter]_vars

NextNav ==
    \/ NavigateHome
    \/ ThreadsArrive
    \/ CategoriesArrive
    \/ Return

SpecNav == InitNav /\ [][NextNav]_vars

-----------------------------------------------------------------------------
(* Claims about the navigation of the browser client *)

\* the path has the shape of the pattern: the same parts, with a non-empty
\* part wherever the pattern has a ':param'
PatternFits(pattern, path) ==
    /\ Len(pattern) = Len(path)
    /\ \A i \in 1..Len(pattern) :
          \/ pattern[i] = path[i]
          \/ pattern[i] = ":id" /\ path[i] # ""

\* C30: for every path Router.navigate ends having executed exactly one
\* route handler: that of the route whose path is the given path, else that
\* of the first registered pattern the path fits, with the parameters taken
\* from the path; when no route matches, the handler of the home route, and
\* currentRoute is '/' afterwards.
C30_NavigateRunsOneHandler ==
    req.op = "navigate" =>
        /\ ~IsThrow(resp)
        /\ Len(resp.handled) = 1
        /\ LET exact == { i \in 1..Len(setupRoutes) : setupRoutes[i].path = req.path }
               fits  == { i \in 1..Len(setupRoutes) :
                            PatternFits(setupRoutes[i].path, req.path) }
               ran   == resp.handled[1]
           IN  IF exact # {}
               THEN /\ \E i \in exact : ran.name = setupRoutes[i].name
                    /\ ran.params = req.params
                    /\ router.currentRoute = Some(req.path)
               ELSE IF fits # {}
               THEN /\ \E i \in fits : /\ \A j \in fits : i <= j
                                       /\ ran.name = setupRoutes[i].name
                    /\ ran.params = Merge([id |-> req.path[3]], req.params)
                    /\ router.currentRoute = Some(req.path)
               ELSE /\ ran.name = "home"
                    /\ ran.params = NoParams
                    /\ router.currentRoute = Some(HomePath)

\* '/users/' matches no route: the home handler ran and currentRoute is '/'
C30_Witness ==
    /\ req.op = "navigate"
    /\ req.path = <<"", "users", "">>
    /\ resp.handled = <<[name |-> "home", params |-> NoParams]>>
    /\ router.currentRoute = Some(HomePath)

\* '/threads/5' ran the thread handler with id = '5'
C30_PatternWitness ==
    /\ req.op = "navigate"
    /\ req.path = <<"", "threads", "5">>
    /\ resp.handled[1].name = "thread-view"
    /\ resp.handled[1].params["id"] = "5"

\* the main content is the one the loadHomePage call built
ShowsLoad(load) ==
    /\ view.mainContent.kind = "threads"
    /\ view.mainContent.language = load.language
    /\ view.mainContent.category = load.category
    /\ view.mainContent.page = load.page

\* C29: when a home-page navigation B starts before the thread-list response
\* of the navigation A before it has arrived, then once the responses of
\* both have arrived the main content and the pagination shown are those of
\* B, in whatever order the responses arrived.
C29_LastNavigationWins ==
    (/\ Len(loads) >= 2
     /\ loads[Len(loads)].concurrent
     /\ \A i \in 1..Len(loads) : loads[i].pc = "done") =>
        ShowsLoad(loads[Len(loads)])
=============================================================================
